---- MODULE Spec2Model ----
(***************************************************************************)
(* The MO translation catalog engine of c_code_utils (mo_parser.c, bundled *)
(* in src/mo_parser/demo/search_comparison.c from line 165 on): loading a  *)
(* .mo byte buffer, the three search strategies, the direct-mapped cache   *)
(* and the query surface, with the heap blocks the library allocates.      *)
(*                                                                         *)
(* A 32-bit unsigned word is the pair <<hi, lo>> of its 16-bit halves, so  *)
(* that 0xFFFFFFFF and wrapping sums are kept at their real width.  A wide *)
(* (size_t) number is the same pair with hi allowed to exceed 16 bits.     *)
(***************************************************************************)
EXTENDS Integers, Sequences, FiniteSets, TLC

VARIABLES mode, enable_stats, file, heap, ctx, phase, last, race

vars == <<mode, enable_stats, file, heap, ctx, phase, last, race>>

(***************************************************************************)
(* Bounds of the model.                                                    *)
(***************************************************************************)
\* largest number of string pairs in a generated catalog
MaxN == 2

\* largest number of lookups counted on a catalog of a statistics-enabled build
MaxLookups == 3

\* largest string count below 2^22 whose hash table is sized
MaxCount == 100

(***************************************************************************)
(* Program constants.                                                      *)
(***************************************************************************)
MO_MAX_STRING_LENGTH == 4096
MO_CACHE_SIZE == 64
\* sizeof(mo_header_t): seven packed uint32_t
HeaderSize == 28
\* sizeof(mo_string_entry_t): two packed uint32_t
EntrySize == 8
\* the context separator "\004" of the snprintf format
EOT == 4
\* address of translate_cp's local key[] array in the caller-side memory
KeyAddr == 200

Half == 65536

MO_MAGIC == <<38148, 4830>>        \* 0x950412de
MO_MAGIC_REV == <<56850, 1173>>    \* 0xde120495
\* the index 0xFFFFFFFF, which no index of a modelled catalog reaches
NOT_FOUND == -1

Modes == {"LINEAR", "BINARY", "HASH"}

(***************************************************************************)
(* Arithmetic on words.                                                    *)
(***************************************************************************)
W(n) == <<n \div Half, n % Half>>

\* the value of a word known to be small
Val(w) == w[1] * Half + w[2]

IsSmall(w) == w[1] < 16384

\* carry-propagating sum, not wrapped
AddWide(a, b) ==
    LET lo == a[2] + b[2]
    IN  <<a[1] + b[1] + lo \div Half, lo % Half>>

\* truncation to uint32_t
Wrap32(a) == <<a[1] % Half, a[2]>>

\* uint32_t + uint32_t in unsigned int arithmetic
Add32(a, b) == Wrap32(AddWide(a, b))

\* uint32_t * small constant, in size_t (64-bit) arithmetic
MulWide(a, k) ==
    LET lo == a[2] * k
    IN  <<a[1] * k + lo \div Half, lo % Half>>

LessWide(a, b) == a[1] < b[1] \/ (a[1] = b[1] /\ a[2] < b[2])

GreaterWide(a, b) == LessWide(b, a)

(***************************************************************************)
(* Bytes of a buffer.  Offsets are 0-based as in C; sequences are 1-based. *)
(***************************************************************************)
\* mo_swap_uint32: the four bytes of val in reverse order when swap is set
mo_swap_uint32(val, swap) ==
    IF ~swap
    THEN val
    ELSE <<(val[2] % 256) * 256 + val[2] \div 256,     \* (val << 24) | ((val << 8) & 0x00FF0000)
           (val[1] % 256) * 256 + val[1] \div 256>>    \* ((val >> 8) & 0xFF00) | (val >> 24)

\* a packed uint32_t field read by a little-endian host at byte offset off
Read32(bytes, off) ==
    <<bytes[off + 4] * 256 + bytes[off + 3], bytes[off + 2] * 256 + bytes[off + 1]>>

\* the four bytes a little-endian host stores for the word w
Bytes32(w) == <<w[2] % 256, w[2] \div 256, w[1] % 256, w[1] \div 256>>

\* bytes with the uint32_t at byte offset off overwritten by w
Write32(bytes, off, w) ==
    [k \in 1..Len(bytes) |->
        IF k > off /\ k <= off + 4 THEN Bytes32(w)[k - off] ELSE bytes[k]]

\* len bytes of a buffer from byte offset off (the bytes memcmp reads)
BytesAt(bytes, off, len) == [k \in 1..len |-> bytes[off + k]]

RECURSIVE Concat(_)
Concat(ss) == IF ss = <<>> THEN <<>> ELSE Head(ss) \o Concat(Tail(ss))

\* strlen of the NUL-terminated string held in mem
Strlen(mem) ==
    IF \E k \in 1..Len(mem) : mem[k] = 0
    THEN (CHOOSE k \in 1..Len(mem) : mem[k] = 0 /\ \A j \in 1..(k - 1) : mem[j] # 0) - 1
    ELSE Len(mem)

\* memcmp on two byte sequences of equal length: negative, zero or positive
RECURSIVE Memcmp(_, _)
Memcmp(a, b) ==
    IF a = <<>> THEN 0
    ELSE IF Head(a) # Head(b) THEN Head(a) - Head(b)
    ELSE Memcmp(Tail(a), Tail(b))

(***************************************************************************)
(* Pointers.  A pointer is a region and an offset word: "buf" is the       *)
(* catalog's owned copy of the file, "mem" is caller-side memory (string   *)
(* literals, caller buffers and translate_cp's stack array).               *)
(***************************************************************************)
NULL == [reg |-> "null", off |-> W(0)]

BufPtr(off) == [reg |-> "buf", off |-> off]

MemPtr(addr) == [reg |-> "mem", off |-> W(addr)]

\* (uintptr_t)p & (MO_CACHE_SIZE - 1)
PtrLowBits(p) == p.off[2] % MO_CACHE_SIZE

(***************************************************************************)
(* mo_string_pair_t views into the owned buffer.                           *)
(***************************************************************************)
\* the original_len bytes at pair->original
PairOriginal(c, pair) ==
    IF pair.original_len = W(0)
    THEN <<>>
    ELSE BytesAt(c.data, Val(pair.original), Val(pair.original_len))

(***************************************************************************)
(* Linear strategy.                                                        *)
(***************************************************************************)
RECURSIVE LinearScan(_, _, _, _)
LinearScan(c, str, len, i) ==
    IF i >= c.num_strings THEN NOT_FOUND
    ELSE IF c.pairs[i + 1].original_len # W(len) THEN LinearScan(c, str, len, i + 1)
    ELSE IF Memcmp(PairOriginal(c, c.pairs[i + 1]), str) = 0 THEN i
    ELSE LinearScan(c, str, len, i + 1)

mo_find_string_linear(c, str, len) ==
    IF c.pairs_blk = 0 \/ c.num_strings = 0
    THEN NOT_FOUND
    ELSE LinearScan(c, str, len, 0)

(***************************************************************************)
(* Binary strategy.                                                        *)
(***************************************************************************)
\* the qsort comparator: length first, then memcmp of the originals
mo_compare_pairs(c, pair1, pair2) ==
    IF LessWide(pair1.original_len, pair2.original_len) THEN -1
    ELSE IF GreaterWide(pair1.original_len, pair2.original_len) THEN 1
    ELSE Memcmp(PairOriginal(c, pair1), PairOriginal(c, pair2))

\* the orders qsort may leave the array in: every permutation of the pairs
\* that is ascending under the comparator (equal elements in any order)
Orderings(n) ==
    {f \in [1..n -> 1..n] : \A i, j \in 1..n : i # j => f[i] # f[j]}

QsortResults(c, ps) ==
    {[k \in 1..Len(ps) |-> ps[f[k]]] : f \in
        {g \in Orderings(Len(ps)) :
            \A k \in 1..(Len(ps) - 1) :
                mo_compare_pairs(c, ps[g[k]], ps[g[k + 1]]) <= 0}}

RECURSIVE BinaryLoop(_, _, _, _, _)
BinaryLoop(c, str, len, left, right) ==
    IF left > right THEN NOT_FOUND
    ELSE
      LET mid == left + (right - left) \div 2
          pair == c.pairs[mid + 1]
      IN  IF LessWide(pair.original_len, W(len))
          THEN BinaryLoop(c, str, len, mid + 1, right)
          ELSE IF GreaterWide(pair.original_len, W(len))
          THEN IF mid = 0 THEN NOT_FOUND
               ELSE BinaryLoop(c, str, len, left, mid - 1)
          ELSE LET cmp == Memcmp(PairOriginal(c, pair), str)
               IN  IF cmp = 0 THEN mid
                   ELSE IF cmp < 0 THEN BinaryLoop(c, str, len, mid + 1, right)
                   ELSE IF mid = 0 THEN NOT_FOUND
                   ELSE BinaryLoop(c, str, len, left, mid - 1)

\* the slip of starting the search at the second pair
mo_find_string_binary_FromSecond(c, str, len) ==
    IF c.pairs_blk = 0 \/ c.num_strings = 0
    THEN NOT_FOUND
    ELSE BinaryLoop(c, str, len, 1, c.num_strings - 1)

mo_find_string_binary(c, str, len) ==
    IF c.pairs_blk = 0 \/ c.num_strings = 0
    THEN NOT_FOUND
    ELSE BinaryLoop(c, str, len, 0, c.num_strings - 1)

(***************************************************************************)
(* Hash strategy.                                                          *)
(***************************************************************************)
\* djb2 over the bytes: hash = ((hash << 5) + hash) + byte, wrapping at 2^32
\* (the loop over a string is run as the loop over its first half followed by
\* the loop over its second half, on the hash the first half has left)
HashStep(hash, byte) ==
    LET lo == hash[2] * 33 + byte
    IN  <<(hash[1] * 33 + lo \div Half) % Half, lo % Half>>

RECURSIVE HashFrom(_, _)
HashFrom(hash, str) ==
    IF str = <<>> \/ Len(hash) # 2 THEN hash
    ELSE IF Len(str) = 1 THEN HashStep(hash, str[1])
    ELSE HashFrom(HashFrom(hash, SubSeq(str, 1, Len(str) \div 2)),
                  SubSeq(str, Len(str) \div 2 + 1, Len(str)))

mo_hash_string(str) == HashFrom(W(5381), str)

\* x >> k and x | y on naturals below 2^31
ShiftRight(x, k) == x \div (2 ^ k)

RECURSIVE BitOr(_, _)
BitOr(x, y) ==
    IF x = 0 THEN y
    ELSE IF y = 0 THEN x
    ELSE (IF x % 2 = 1 \/ y % 2 = 1 THEN 1 ELSE 0) + 2 * BitOr(x \div 2, y \div 2)

\* the bit-smearing of mo_next_power_of_two, for 1 <= n <= 2^30
mo_next_power_of_two(n) ==
    LET n0 == n - 1
        n1 == BitOr(n0, ShiftRight(n0, 1))
        n2 == BitOr(n1, ShiftRight(n1, 2))
        n3 == BitOr(n2, ShiftRight(n2, 4))
        n4 == BitOr(n3, ShiftRight(n3, 8))
        n5 == BitOr(n4, ShiftRight(n4, 16))
    IN  n5 + 1

\* (uint32_t)(num_strings / 0.75f) + 1; the quotient is exact in float for
\* the catalog sizes modelled here
TargetSize(num_strings) == (num_strings * 4) \div 3 + 1

\* hash & mask for a power-of-two table of at most 2^16 slots
HashIndex(hash, mask) == hash[2] % (mask + 1)

EmptySlot ==
    [original |-> W(0), translation |-> W(0), original_len |-> W(0),
     translation_len |-> W(0), hash |-> W(0), state |-> "EMPTY"]

\* the probe of the insertion loop: the first slot from index on that is
\* not occupied
RECURSIVE ProbeFree(_, _, _)
ProbeFree(table, mask, index) ==
    IF table[index + 1].state = "OCCUPIED"
    THEN ProbeFree(table, mask, (index + 1) % (mask + 1))
    ELSE index

\* the insertion loop of mo_build_hash_table from pair i (0-based) on
RECURSIVE InsertFrom(_, _, _, _)
InsertFrom(c, table, mask, i) ==
    IF i >= c.num_strings THEN table
    ELSE
      LET pair == c.pairs[i + 1]
          hash == mo_hash_string(PairOriginal(c, pair))
          index == ProbeFree(table, mask, HashIndex(hash, mask))
          slot == [original |-> pair.original, translation |-> pair.translation,
                   original_len |-> pair.original_len,
                   translation_len |-> pair.translation_len,
                   hash |-> hash, state |-> "OCCUPIED"]
      IN  InsertFrom(c, [table EXCEPT ![index + 1] = slot], mask, i + 1)

\* the slip of starting the insertion loop at the second pair
BuiltHashTable_SkipsFirst(c) ==
    LET size == mo_next_power_of_two(TargetSize(c.num_strings))
    IN  InsertFrom(c, [k \in 1..size |-> EmptySlot], size - 1, 1)

\* the table mo_build_hash_table fills, once calloc has succeeded
BuiltHashTable(c) ==
    LET size == mo_next_power_of_two(TargetSize(c.num_strings))
    IN  InsertFrom(c, [k \in 1..size |-> EmptySlot], size - 1, 0)

\* the len bytes at slot->original
SlotOriginal(c, slot) ==
    IF slot.original_len = W(0)
    THEN <<>>
    ELSE BytesAt(c.data, Val(slot.original), Val(slot.original_len))

RECURSIVE HashProbe(_, _, _, _, _, _)
HashProbe(c, str, len, hash, index, start_index) ==
    LET slot == c.hash_table[index + 1]
        next == (index + 1) % (c.hash_table_mask + 1)
    IN  IF slot.state = "EMPTY" THEN NOT_FOUND
        ELSE IF slot.state = "OCCUPIED" /\ slot.hash = hash
                /\ slot.original_len = W(len)
                /\ Memcmp(SlotOriginal(c, slot), str) = 0
        THEN index
        ELSE IF next = start_index THEN NOT_FOUND
        ELSE HashProbe(c, str, len, hash, next, start_index)

mo_find_string_hash(c, str, len, hash) ==
    IF c.hash_table_blk = 0 \/ c.hash_table_size = 0
    THEN NOT_FOUND
    ELSE HashProbe(c, str, len, hash, HashIndex(hash, c.hash_table_mask),
                   HashIndex(hash, c.hash_table_mask))

(***************************************************************************)
(* The heap: every block malloc/calloc has returned, in order, with the    *)
(* number of times free has been called on it.  Block ids start at 1; the  *)
(* id 0 stands for a NULL pointer.                                         *)
(***************************************************************************)
Alloc(h, kind) == Append(h, [kind |-> kind, frees |-> 0])

Free(h, blk) == [h EXCEPT ![blk].frees = @ + 1]

(***************************************************************************)
(* struct mo_context.                                                      *)
(***************************************************************************)
EmptyCacheItem == [original |-> NULL, translation |-> NULL, hash |-> W(0)]

\* mo_stats_t after memset: the three counters of the cache accounting
ZeroStats == [total_lookups |-> W(0), cache_hits |-> W(0), cache_misses |-> W(0)]

\* the struct as calloc returns it
ZeroCtx ==
    [data |-> <<>>, size |-> 0, pairs |-> <<>>, num_strings |-> 0,
     hash_table |-> <<>>, hash_table_size |-> 0, hash_table_mask |-> 0,
     hash_table_count |-> 0,
     cache |-> [k \in 0..(MO_CACHE_SIZE - 1) |-> EmptyCacheItem],
     stats |-> ZeroStats,
     ctx_blk |-> 0, data_blk |-> 0, pairs_blk |-> 0, hash_table_blk |-> 0]

\* mo_context_free on a non-NULL context: data, pairs, hash table, struct
mo_context_free(h, c) ==
    LET h1 == IF c.data_blk # 0 THEN Free(h, c.data_blk) ELSE h
        h2 == IF c.pairs_blk # 0 THEN Free(h1, c.pairs_blk) ELSE h1
        h3 == IF c.hash_table_blk # 0 THEN Free(h2, c.hash_table_blk) ELSE h2
    IN  Free(h3, c.ctx_blk)

(***************************************************************************)
(* mo_context_create_from_memory.                                          *)
(***************************************************************************)
\* the header of the owned copy after the in-place byte-order conversion of
\* revision, num_strings, the two table offsets and the two hash fields
SwapHeader(bytes, need_swap) ==
    LET f(b, off) == Write32(b, off, mo_swap_uint32(Read32(b, off), need_swap))
    IN  f(f(f(f(f(f(bytes, 4), 8), 12), 16), 20), 24)

\* the table-offset validation, in size_t arithmetic
TablesOutOfRange(num_strings, orig_off, trans_off, size) ==
    \/ GreaterWide(AddWide(orig_off, MulWide(num_strings, EntrySize)), W(size))
    \/ GreaterWide(AddWide(trans_off, MulWide(num_strings, EntrySize)), W(size))

\* the descriptor validation, in uint32_t arithmetic
DescOutOfRange(offset, len, size) ==
    GreaterWide(Add32(Add32(offset, len), W(1)), W(size))

\* the four descriptor words of index i (0-based) as the loop reads them
Descriptor(data, orig_table, trans_table, need_swap, i) ==
    [orig_len |-> mo_swap_uint32(Read32(data, orig_table + EntrySize * i), need_swap),
     orig_offset |-> mo_swap_uint32(Read32(data, orig_table + EntrySize * i + 4), need_swap),
     trans_len |-> mo_swap_uint32(Read32(data, trans_table + EntrySize * i), need_swap),
     trans_offset |-> mo_swap_uint32(Read32(data, trans_table + EntrySize * i + 4), need_swap)]

DescriptorBad(d, size) ==
    \/ DescOutOfRange(d.orig_offset, d.orig_len, size)
    \/ DescOutOfRange(d.trans_offset, d.trans_len, size)

\* the slip of resolving the translation through the original's offset
PairOf_OriginalAsTranslation(d) ==
    [original |-> d.orig_offset, translation |-> d.orig_offset,
     original_len |-> d.orig_len, translation_len |-> d.trans_len]

PairOf(d) ==
    [original |-> d.orig_offset, translation |-> d.trans_offset,
     original_len |-> d.orig_len, translation_len |-> d.trans_len]

\* the slip of taking a zeroed first word for a catalog in native order
BadMagic_ZeroAccepted(magic) ==
    magic # MO_MAGIC /\ magic # MO_MAGIC_REV /\ magic # W(0)

\* the magic check: the first word is neither the native nor the reversed magic
BadMagic(magic) ==
    magic # MO_MAGIC /\ magic # MO_MAGIC_REV

\* every way the call can end: result code, heap, the context built and
\* whether *context was written.  failAt names the allocation that returns
\* NULL, if any.
CreateFromMemoryOutcomes(h, m, bytes, failAt) ==
    LET size == Len(bytes)
        Fail(err, hh) == {[result |-> err, heap |-> hh, ctx |-> ZeroCtx, wrote |-> FALSE]}
        h1 == Alloc(h, "ctx")
        c1 == [ZeroCtx EXCEPT !.ctx_blk = Len(h1)]
        h2 == Alloc(h1, "data")
        magic == Read32(bytes, 0)
        need_swap == (magic = MO_MAGIC_REV)
        data == SwapHeader(bytes, need_swap)
        c2 == [c1 EXCEPT !.data_blk = Len(h2), !.data = data, !.size = size]
        num_w == Read32(data, 8)
        orig_w == Read32(data, 12)
        trans_w == Read32(data, 16)
        n == Val(num_w)
        h3 == Alloc(h2, "pairs")
        desc(i) == Descriptor(data, Val(orig_w), Val(trans_w), need_swap, i)
        parsed == [k \in 1..n |-> PairOf(desc(k - 1))]
        c3 == [c2 EXCEPT !.num_strings = n, !.pairs_blk = Len(h3)]
        c4 == [c3 EXCEPT !.pairs = parsed]
        orders == IF m = "BINARY" THEN QsortResults(c4, parsed) ELSE {parsed}
        hsize == mo_next_power_of_two(TargetSize(n))
        h4 == Alloc(h3, "hash_table")
    IN  IF size < HeaderSize THEN Fail("MO_ERROR_INVALID_CONTEXT", h)
        ELSE IF failAt = "ctx" THEN Fail("MO_ERROR_MEMORY", h)
        ELSE IF failAt = "data" THEN Fail("MO_ERROR_MEMORY", mo_context_free(h1, c1))
        ELSE IF BadMagic(magic)
        THEN Fail("MO_ERROR_INVALID_FORMAT", mo_context_free(h2, c2))
        ELSE IF TablesOutOfRange(num_w, orig_w, trans_w, size)
        THEN Fail("MO_ERROR_INVALID_FORMAT", mo_context_free(h2, c2))
        ELSE IF failAt = "pairs"
        THEN Fail("MO_ERROR_MEMORY", mo_context_free(h2, [c2 EXCEPT !.num_strings = n]))
        ELSE IF \E i \in 0..(n - 1) : DescriptorBad(desc(i), size)
        THEN Fail("MO_ERROR_INVALID_FORMAT", mo_context_free(h3, c3))
        ELSE IF m # "HASH"
        THEN {[result |-> "MO_SUCCESS", heap |-> h3,
               ctx |-> [c4 EXCEPT !.pairs = sorted], wrote |-> TRUE] : sorted \in orders}
        ELSE IF n = 0 THEN Fail("MO_ERROR_MEMORY", mo_context_free(h3, c4))
        ELSE IF failAt = "hash_table"
        THEN Fail("MO_ERROR_MEMORY", mo_context_free(h3, c4))
        ELSE {[result |-> "MO_SUCCESS", heap |-> h4,
               ctx |-> [c4 EXCEPT !.hash_table_blk = Len(h4),
                                  !.hash_table_size = hsize,
                                  !.hash_table_mask = hsize - 1,
                                  !.hash_table_count = n,
                                  !.hash_table = BuiltHashTable(c4)],
               wrote |-> TRUE]}

(***************************************************************************)
(* mo_context_create.                                                      *)
(***************************************************************************)
\* exists: fopen succeeds; short: fread returns fewer bytes than asked for
CreateOutcomes(h, m, bytes, exists, short, failAt) ==
    LET size == Len(bytes)
        Fail(err, hh) == {[result |-> err, heap |-> hh, ctx |-> ZeroCtx, wrote |-> FALSE]}
        h1 == Alloc(h, "outer_ctx")
        c1 == [ZeroCtx EXCEPT !.ctx_blk = Len(h1)]
        h2 == Alloc(h1, "file_data")
        data_blk == Len(h2)
        \* ctx->data = data; ctx->size = file_size
        c2 == [c1 EXCEPT !.data_blk = data_blk, !.data = bytes, !.size = size]
        inner == CreateFromMemoryOutcomes(h2, m, bytes, failAt)
    IN  IF failAt = "outer_ctx" THEN Fail("MO_ERROR_MEMORY", h)
        ELSE IF ~exists THEN Fail("MO_ERROR_FILE_NOT_FOUND", mo_context_free(h1, c1))
        ELSE IF size < HeaderSize
        THEN Fail("MO_ERROR_INVALID_FORMAT", mo_context_free(h1, c1))
        ELSE IF failAt = "file_data" THEN Fail("MO_ERROR_MEMORY", mo_context_free(h1, c1))
        ELSE IF short THEN Fail("MO_ERROR_IO", mo_context_free(Free(h2, data_blk), c1))
        ELSE {IF o.result # "MO_SUCCESS"
              \* cleanup: free(data), then mo_context_free(ctx) with ctx->data == data
              THEN [result |-> o.result, ctx |-> ZeroCtx, wrote |-> FALSE,
                    heap |-> mo_context_free(Free(o.heap, data_blk), c2)]
              \* the inner call has overwritten the local ctx; data = NULL
              ELSE o : o \in inner}

(***************************************************************************)
(* The query surface.  A C-string argument is the pointer passed and the   *)
(* bytes the memory holds at it when the call is made.                     *)
(***************************************************************************)
CStr(ptr, mem) == [ptr |-> ptr, mem |-> mem]

NullStr == CStr(NULL, <<>>)

Prefix(mem, len) == SubSeq(mem, 1, len)

\* the strategy compiled in, mapped to the translation pointer it finds,
\* or NULL when it returns 0xFFFFFFFF
StrategyLookup(c, m, str, len) ==
    IF m = "HASH"
    THEN LET index == mo_find_string_hash(c, str, len, mo_hash_string(str))
         IN  IF index # NOT_FOUND THEN BufPtr(c.hash_table[index + 1].translation) ELSE NULL
    ELSE LET index == IF m = "LINEAR" THEN mo_find_string_linear(c, str, len)
                      ELSE mo_find_string_binary(c, str, len)
         IN  IF index # NOT_FOUND THEN BufPtr(c.pairs[index + 1].translation) ELSE NULL

\* the cache slot a query maps to: hash & 63 in hash mode, else address & 63
CacheSlot(m, original, str) ==
    IF m = "HASH" THEN mo_hash_string(str)[2] % MO_CACHE_SIZE ELSE PtrLowBits(original)

CacheHit(c, m, original, str) ==
    LET item == c.cache[CacheSlot(m, original, str)]
    IN  IF m = "HASH"
        THEN item.original = original /\ item.hash = mo_hash_string(str)
        ELSE item.original = original

\* the slip of returning a cached answer before the lookup is counted
CacheHitStats_Uncounted(st) ==
    [st EXCEPT !.cache_hits = Add32(@, W(1))]

\* the counters after a lookup answered from the cache
CacheHitStats(st) ==
    [st EXCEPT !.total_lookups = Add32(@, W(1)), !.cache_hits = Add32(@, W(1))]

\* the counters after a lookup the cache did not answer
CacheMissStats(st) ==
    [st EXCEPT !.total_lookups = Add32(@, W(1)), !.cache_misses = Add32(@, W(1))]

\* the slip of writing the cache slot before the test of the index, so that a
\* query the strategy does not find is cached with its own pointer
mo_translate_n_MissCached(c, m, original, mem, original_len) ==
    LET str == Prefix(mem, original_len)
        cache_slot == CacheSlot(m, original, str)
        item == c.cache[cache_slot]
        found == StrategyLookup(c, m, str, original_len)
        hit == CacheHitStats(c.stats)
        miss == CacheMissStats(c.stats)
        result == IF found # NULL THEN found ELSE original
    IN  IF c.pairs_blk = 0 \/ original = NULL
        THEN [result |-> original, cache |-> c.cache, stats |-> c.stats]
        ELSE IF CacheHit(c, m, original, str)
        THEN [result |-> IF item.translation # NULL THEN item.translation ELSE original,
              cache |-> c.cache, stats |-> hit]
        ELSE [result |-> result,
              cache |-> [c.cache EXCEPT ![cache_slot] =
                            [original |-> original, translation |-> result,
                             hash |-> IF m = "HASH" THEN mo_hash_string(str) ELSE W(0)]],
              stats |-> miss]

\* mo_translate_n: the pointer returned, the cache and the counters left
\* behind (the counters as a statistics-enabled build keeps them)
mo_translate_n(c, m, original, mem, original_len) ==
    LET str == Prefix(mem, original_len)
        cache_slot == CacheSlot(m, original, str)
        item == c.cache[cache_slot]
        found == StrategyLookup(c, m, str, original_len)
        hit == CacheHitStats(c.stats)
        miss == CacheMissStats(c.stats)
    IN  IF c.pairs_blk = 0 \/ original = NULL
        THEN [result |-> original, cache |-> c.cache, stats |-> c.stats]
        ELSE IF CacheHit(c, m, original, str)
        THEN [result |-> IF item.translation # NULL THEN item.translation ELSE original,
              cache |-> c.cache, stats |-> hit]
        ELSE IF found # NULL
        THEN [result |-> found,
              cache |-> [c.cache EXCEPT ![cache_slot] =
                            [original |-> original, translation |-> found,
                             hash |-> IF m = "HASH" THEN mo_hash_string(str) ELSE W(0)]],
              stats |-> miss]
        ELSE [result |-> original, cache |-> c.cache, stats |-> miss]

\* mo_translate: the length is strlen(original), 0 for a NULL pointer
mo_translate(c, m, original, mem) ==
    mo_translate_n(c, m, original, mem, IF original = NULL THEN 0 ELSE Strlen(mem))

\* the bytes "%s" prints: the string up to its NUL
CBytes(cs) == Prefix(cs.mem, Strlen(cs.mem))

\* what snprintf would write for the key of str under context_str
KeyBytes(context_str, str) ==
    IF context_str.ptr # NULL
    THEN CBytes(context_str) \o <<EOT>> \o CBytes(str)
    ELSE CBytes(str)

\* the local array char key[MO_MAX_STRING_LENGTH]
KeyPtr == MemPtr(KeyAddr)

\* the slip of retrying the bare singular only when there is no context
mo_translate_cp_NoFallback(c, m, context_str, singular, plural, n) ==
    LET key1 == KeyBytes(context_str, singular)
        r1 == mo_translate_n(c, m, KeyPtr, key1, Len(key1))
        r2 == IF r1.result = KeyPtr /\ context_str.ptr = NULL
              THEN mo_translate([c EXCEPT !.cache = r1.cache, !.stats = r1.stats], m, singular.ptr, singular.mem)
              ELSE r1
        r4 == mo_translate([c EXCEPT !.cache = r2.cache, !.stats = r2.stats], m, plural.ptr, plural.mem)
    IN  IF singular.ptr = NULL \/ Len(key1) >= MO_MAX_STRING_LENGTH
        THEN [result |-> singular.ptr, cache |-> c.cache, stats |-> c.stats]
        ELSE IF plural.ptr # NULL /\ n # 1
        THEN r4
        ELSE r2

\* the context as the call that returned r has left it
After(c, r) == [c EXCEPT !.cache = r.cache, !.stats = r.stats]

\* mo_translate_cp: the pointer returned, the cache and the counters left behind
mo_translate_cp(c, m, context_str, singular, plural, n) ==
    LET key1 == KeyBytes(context_str, singular)
        \* result = mo_translate_n(context, key, key_len)
        r1 == mo_translate_n(c, m, KeyPtr, key1, Len(key1))
        c1 == After(c, r1)
        \* if (result == key && context_str) result = mo_translate(context, singular)
        r2 == IF r1.result = KeyPtr /\ context_str.ptr # NULL
              THEN mo_translate(c1, m, singular.ptr, singular.mem)
              ELSE r1
        c2 == After(c, r2)
        key2 == KeyBytes(context_str, plural)
        \* plural_translation after the context-qualified attempt
        r3 == IF context_str.ptr # NULL /\ Len(key2) < MO_MAX_STRING_LENGTH
              THEN mo_translate_n(c2, m, KeyPtr, key2, Len(key2))
              ELSE [result |-> NULL, cache |-> r2.cache, stats |-> r2.stats]
        c3 == After(c, r3)
        r4 == IF r3.result = NULL \/ r3.result = KeyPtr
              THEN mo_translate(c3, m, plural.ptr, plural.mem)
              ELSE r3
    IN  IF singular.ptr = NULL
        THEN [result |-> singular.ptr, cache |-> c.cache, stats |-> c.stats]
        ELSE IF Len(key1) >= MO_MAX_STRING_LENGTH
        THEN [result |-> singular.ptr, cache |-> c.cache, stats |-> c.stats]
        ELSE IF plural.ptr # NULL /\ n # 1
        THEN r4
        ELSE r2

(***************************************************************************)
(* Input buffers.                                                          *)
(***************************************************************************)
\* the four bytes of a field in a file of the given byte order
Field(w, rev) == Bytes32(mo_swap_uint32(w, rev))

\* the (length, offset) entries of a descriptor table
Table(descs, rev) ==
    Concat([k \in 1..Len(descs) |-> Field(descs[k].len, rev) \o Field(descs[k].off, rev)])

\* the originals' area of every generated file: "\001", "\002",
\* "\003\004\001", "\003\004\002", "\001\042" and "\002\001", each with its NUL
OrigArea == <<1, 0, 2, 0, 3, 4, 1, 0, 3, 4, 2, 0, 1, 34, 0, 2, 1, 0>>

\* followed by one one-byte translation per pair index, each with its NUL
TransArea == Concat([k \in 1..MaxN |-> <<10 + k, 0>>])

\* header, original table, translation table, strings
MkFile(rev, magic, num, orig_off, trans_off, origs, transs) ==
    Field(magic, FALSE) \o Field(W(0), rev) \o Field(num, rev)
    \o Field(orig_off, rev) \o Field(trans_off, rev)
    \o Field(W(0), rev) \o Field(W(0), rev)
    \o Table(origs, rev) \o Table(transs, rev)
    \o OrigArea \o TransArea

\* where the string area of a file with cnt table entries starts
StrBase(cnt) == HeaderSize + 2 * EntrySize * cnt

\* originals in OrigArea, as offset and length: "\001", "\002", the
\* context-qualified "\003\004\001" and "\003\004\002", "\001\042" (whose djb2
\* hash equals that of "\002\001") and the three bytes "\001\000\002"
OrigA == [rel |-> 0, len |-> 1]
OrigB == [rel |-> 2, len |-> 1]
OrigCA == [rel |-> 4, len |-> 3]
OrigCB == [rel |-> 8, len |-> 3]
OrigX == [rel |-> 12, len |-> 2]
OrigANulB == [rel |-> 0, len |-> 3]

\* the originals the catalogs of the plain-query machine draw from
PlainPool == <<OrigA, OrigB, OrigX, OrigANulB>>

\* the originals the catalogs of the context/plural machine draw from
ContextPool == <<OrigA, OrigB, OrigCA, OrigCB>>

PoolSeqs(pool) == UNION {[1..k -> 1..Len(pool)] : k \in 0..MaxN}

\* a file whose i-th original is pool entry picks[i] and whose i-th
\* translation is the i-th string of TransArea, under the given header fields
CatalogFileH(rev, magic, num, orig_off, trans_off, pool, picks) ==
    LET cnt == Len(picks)
        base == StrBase(cnt)
    IN  MkFile(rev, magic, num, orig_off, trans_off,
               [k \in 1..cnt |-> [len |-> W(pool[picks[k]].len),
                                  off |-> W(base + pool[picks[k]].rel)]],
               [k \in 1..cnt |-> [len |-> W(1),
                                  off |-> W(base + Len(OrigArea) + 2 * (k - 1))]])

\* the well-formed native-order file of those pairs
CatalogFile(pool, picks) ==
    CatalogFileH(FALSE, MO_MAGIC, W(Len(picks)), W(HeaderSize),
                 W(HeaderSize + EntrySize * Len(picks)), pool, picks)

CatalogFiles(pool) == {CatalogFile(pool, picks) : picks \in PoolSeqs(pool)}

\* addresses of the caller's strings; both map to cache slot 1
UserAddrs == {65, 129}

\* what the caller's memory holds at a queried address
QueryStrs == {<<1>>, <<2>>, <<1, 34>>, <<2, 1>>, <<1, 0, 2>>}

\* the arguments of the modelled translate_cp calls
CtxStrs == {NullStr, CStr(MemPtr(300), <<3>>)}

SingularStrs == {CStr(MemPtr(65), s) : s \in {<<1>>, <<2>>}}

PluralStrs == {NullStr} \cup {CStr(MemPtr(129), s) : s \in {<<1>>, <<2>>}}

Counts == {1, 2}

(***************************************************************************)
(* The state machine: one catalog handle from open to close.               *)
(***************************************************************************)
NoCall ==
    [op |-> "none", err |-> "", failAt |-> "none", fresh |-> FALSE,
     context_str |-> NullStr, s |-> NullStr, plural |-> NullStr,
     len |-> 0, n |-> 0, res |-> NULL, run |-> 0,
     num_strings |-> <<0, 0>>, target_size |-> <<0, 0>>,
     hash_table_size |-> <<0, 0>>, hash_table_mask |-> <<0, 0>>]

\* a caller of the two-caller machine that is in no call
IdleCaller ==
    [pc |-> "idle", cat |-> 1, s |-> NullStr, found |-> NULL, result |-> NULL,
     overlapped |-> FALSE]

\* no second catalog and no concurrent callers
NoRace ==
    [ctx2 |-> ZeroCtx, caller |-> <<IdleCaller, IdleCaller>>, raced |-> <<FALSE, FALSE>>]

\* the allocation that returns NULL during an open, if the call reaches it
FailPoints(m) ==
    {"none", "ctx", "data", "pairs"} \cup (IF m = "HASH" THEN {"hash_table"} ELSE {})

FileFailPoints(m) == FailPoints(m) \cup {"outer_ctx", "file_data"}

Init ==
    /\ mode \in Modes
    /\ enable_stats = FALSE
    /\ file \in CatalogFiles(PlainPool)
    /\ heap = <<>>
    /\ ctx = ZeroCtx
    /\ phase = "init"
    /\ last = NoCall
    /\ race = NoRace

Opened(o, op, failAt) ==
    /\ heap' = o.heap
    /\ ctx' = IF o.wrote THEN o.ctx ELSE ctx
    /\ phase' = IF o.result = "MO_SUCCESS" THEN "open" ELSE "failed"
    /\ last' = [NoCall EXCEPT !.op = op, !.err = o.result, !.failAt = failAt]
    /\ UNCHANGED <<mode, enable_stats, file, race>>

\* mo_context_create_from_memory(file, size, &handle)
OpenMemory ==
    /\ phase = "init"
    /\ \E failAt \in FailPoints(mode) :
         \E o \in CreateFromMemoryOutcomes(heap, mode, file, failAt) :
            Opened(o, "open_memory", failAt)

\* mo_context_create(path, &handle) on a path holding the bytes of file
OpenFile ==
    /\ phase = "init"
    /\ \E failAt \in FileFailPoints(mode), exists \in BOOLEAN, short \in BOOLEAN :
         \E o \in CreateOutcomes(heap, mode, file, exists, short, failAt) :
            Opened(o, "open_file", failAt)

\* mo_context_free(handle)
Close ==
    /\ phase = "open"
    /\ heap' = mo_context_free(heap, ctx)
    /\ phase' = "closed"
    /\ last' = [NoCall EXCEPT !.op = "close"]
    /\ UNCHANGED <<mode, enable_stats, file, ctx, race>>

IsFresh == \A k \in DOMAIN ctx.cache : ctx.cache[k] = EmptyCacheItem

\* how many calls in a row, the last one included, passed the arguments of
\* call; kept for the builds that count
RunOf(call) ==
    IF ~enable_stats THEN 0
    ELSE IF last.op = call.op /\ last.s = call.s /\ last.len = call.len
    THEN last.run + 1
    ELSE 1

Answered(r, call) ==
    /\ ctx' = [ctx EXCEPT !.cache = r.cache,
                          !.stats = IF enable_stats THEN r.stats ELSE @]
    /\ last' = [call EXCEPT !.res = r.result, !.fresh = IsFresh, !.run = RunOf(call)]
    /\ UNCHANGED <<mode, enable_stats, file, heap, phase, race>>

\* the counters of a model run stay below MaxLookups
Counting == Val(ctx.stats.total_lookups) < MaxLookups

\* mo_translate_n(handle, original, original_len)
TranslateN ==
    /\ phase = "open"
    /\ Counting
    /\ \E a \in UserAddrs, mem \in QueryStrs :
         Answered(mo_translate_n(ctx, mode, MemPtr(a), mem, Len(mem)),
                  [NoCall EXCEPT !.op = "translate_n", !.s = CStr(MemPtr(a), mem),
                                 !.len = Len(mem)])

\* mo_translate(handle, original)
Translate ==
    /\ phase = "open"
    /\ Counting
    /\ \E a \in UserAddrs, mem \in QueryStrs :
         Answered(mo_translate(ctx, mode, MemPtr(a), mem),
                  [NoCall EXCEPT !.op = "translate", !.s = CStr(MemPtr(a), mem),
                                 !.len = Strlen(mem)])

\* mo_translate_cp(handle, context_str, singular, plural, n)
TranslateCP ==
    /\ phase = "open"
    /\ \E cs \in CtxStrs, sg \in SingularStrs, pl \in PluralStrs, n \in Counts :
         Answered(mo_translate_cp(ctx, mode, cs, sg, pl, n),
                  [NoCall EXCEPT !.op = "translate_cp", !.context_str = cs,
                                 !.s = sg, !.plural = pl, !.n = n])

\* the plain-query machine
Next ==
    \/ OpenMemory
    \/ OpenFile
    \/ Close
    \/ TranslateN
    \/ Translate

Spec == Init /\ [][Next]_vars

\* the context/plural machine
InitCP ==
    /\ mode \in Modes
    /\ enable_stats = FALSE
    /\ file \in CatalogFiles(ContextPool)
    /\ heap = <<>>
    /\ ctx = ZeroCtx
    /\ phase = "init"
    /\ last = NoCall
    /\ race = NoRace

NextCP ==
    \/ OpenMemory
    \/ Close
    \/ TranslateCP

SpecCP == InitCP /\ [][NextCP]_vars

(***************************************************************************)
(* The loader machine: buffers with arbitrary 32-bit header and descriptor *)
(* fields, in either byte order, opened from memory or from a file.        *)
(***************************************************************************)
\* the size of a generated file with cnt table entries
FileSize(cnt) == StrBase(cnt) + Len(OrigArea) + Len(TransArea)

MaxWord == <<65535, 65535>>

\* descriptors of an original: a well-formed one, one whose offset + length + 1
\* wraps past 2^32, and one that ends one byte past the buffer
OrigDescs(cnt) ==
    {[len |-> W(1), off |-> W(StrBase(cnt))],
     [len |-> W(0), off |-> MaxWord],
     [len |-> W(1), off |-> W(FileSize(cnt) - 1)]}

\* descriptors of a translation: the last string of the file, one whose
\* offset + length + 1 wraps past 2^32, and one that ends past the buffer
TransDescs(cnt) ==
    {[len |-> W(1), off |-> W(FileSize(cnt) - 2)],
     [len |-> MaxWord, off |-> W(5)],
     [len |-> W(2), off |-> W(FileSize(cnt) - 2)]}

\* files with a well-formed header and arbitrary descriptors
DescriptorFiles ==
    UNION {{MkFile(rev, IF rev THEN MO_MAGIC_REV ELSE MO_MAGIC, W(k),
                   W(HeaderSize), W(HeaderSize + EntrySize * k), origs, transs) :
                rev \in BOOLEAN,
                origs \in [1..k -> OrigDescs(k)],
                transs \in [1..k -> TransDescs(k)]} : k \in 1..MaxN}

\* files with well-formed tables of cnt entries and arbitrary header fields:
\* a magic that is native, reversed or neither; a string count that is cnt or
\* 0x20000000; table offsets that are in place, four bytes before the end of
\* the buffer, or 0xFFFFFFF8
HeaderFiles ==
    UNION {{CatalogFileH(magic = MO_MAGIC_REV, magic, num, orig_off, trans_off,
                         PlainPool, [k \in 1..cnt |-> k]) :
                magic \in {MO_MAGIC, MO_MAGIC_REV, W(0)},
                num \in {W(cnt), <<8192, 0>>},
                orig_off \in {W(HeaderSize), W(FileSize(cnt) - 4), <<65535, 65528>>},
                trans_off \in {W(HeaderSize + EntrySize * cnt), <<65535, 65528>>}} :
           cnt \in 0..MaxN}

\* a buffer shorter than the header
ShortFile == Field(MO_MAGIC, FALSE)

LoadFiles == DescriptorFiles \cup HeaderFiles \cup {ShortFile}

InitLoad ==
    /\ mode \in Modes
    /\ enable_stats = FALSE
    /\ file \in LoadFiles
    /\ heap = <<>>
    /\ ctx = ZeroCtx
    /\ phase = "init"
    /\ last = NoCall
    /\ race = NoRace

NextLoad ==
    \/ OpenMemory
    \/ OpenFile
    \/ Close

SpecLoad == InitLoad /\ [][NextLoad]_vars

(***************************************************************************)
(* What the claims speak of.                                               *)
(***************************************************************************)
\* the last call was a plain lookup on the open catalog
PlainQuery == phase = "open" /\ last.op \in {"translate", "translate_n"}

\* the bytes of the last plain query
QueryBytes == Prefix(last.s.mem, last.len)

\* the pairs of the open catalog whose original is exactly str
Matching(str) ==
    {i \in 1..ctx.num_strings : PairOriginal(ctx, ctx.pairs[i]) = str}

\* a lookup without the cache: the strategy's search, else the input pointer
Cacheless(original, str) ==
    LET found == StrategyLookup(ctx, mode, str, Len(str))
    IN  IF found # NULL THEN found ELSE original

\* C1: cache transparency.  Every translate_n result equals what the same
\* (address, bytes, len) query returns from a lookup without the cache, whatever
\* queries came before it.
C1_CacheTransparency ==
    (phase = "open" /\ last.op = "translate_n")
        => last.res = Cacheless(last.s.ptr, QueryBytes)

\* C2: miss passthrough.  A query whose bytes are not an original of the
\* catalog returns the caller's input pointer, in every state earlier queries
\* can leave the catalog in.
C2_MissPassthrough ==
    (PlainQuery /\ Matching(QueryBytes) = {}) => last.res = last.s.ptr

\* the header and descriptor fields of the source file, in the file's byte order
FileSwap == Read32(file, 0) = MO_MAGIC_REV

FileField(off) == mo_swap_uint32(Read32(file, off), FileSwap)

FileNum == Val(FileField(8))

\* the i-th (1-based) descriptors of the source file
FileDesc(i) ==
    Descriptor(file, Val(FileField(12)), Val(FileField(16)), FileSwap, i - 1)

\* the i-th original and translation as the source file stores them
FileOriginal(i) == BytesAt(file, Val(FileDesc(i).orig_offset), Val(FileDesc(i).orig_len))

FileTranslation(i) ==
    BytesAt(file, Val(FileDesc(i).trans_offset), Val(FileDesc(i).trans_len))

\* len bytes at a pointer the last plain query returned
ResultBytes(len) ==
    IF last.res.reg = "buf"
    THEN BytesAt(ctx.data, Val(last.res.off), len)
    ELSE Prefix(last.s.mem, IF len < Len(last.s.mem) THEN len ELSE Len(last.s.mem))

\* the last call was translate on the i-th original's bytes, as the first
\* lookup after the load
RoundTripOf(i) ==
    /\ phase = "open"
    /\ last.op = "translate"
    /\ last.fresh
    /\ last.s.mem = FileOriginal(i)

PlainUnique(i) ==
    /\ \A k \in 1..Len(FileOriginal(i)) : FileOriginal(i)[k] # 0
    /\ \A j \in 1..FileNum : j # i => FileOriginal(j) # FileOriginal(i)

ContextQuery == phase = "open" /\ last.op = "translate_cp"

\* the translations the catalog stores for the key of str under the last
\* call's context
KeyTranslations(str) ==
    {BufPtr(ctx.pairs[i].translation) : i \in Matching(KeyBytes(last.context_str, str))}

\* the translations the catalog stores for str without a context
BareTranslations(str) ==
    {BufPtr(ctx.pairs[i].translation) : i \in Matching(CBytes(str))}

\* C4: translate_cp never hands out its scratch buffer.  Whatever the context,
\* plural, n and outcome, the pointer returned is the caller's singular, the
\* caller's plural or a view into the catalog's buffer.
C4_NoScratchEscape ==
    ContextQuery =>
        \/ last.res = last.s.ptr
        \/ (last.plural.ptr # NULL /\ last.res = last.plural.ptr)
        \/ last.res.reg = "buf"

\* the NUL-terminated string a buffer holds from byte offset off
CStringAt(bytes, off) ==
    LET rest == SubSeq(bytes, off + 1, Len(bytes))
    IN  Prefix(rest, Strlen(rest))

\* what key[] holds when translate_cp returns: the last key snprintf wrote
KeyAtReturn ==
    IF last.context_str.ptr # NULL /\ last.plural.ptr # NULL /\ last.n # 1
    THEN KeyBytes(last.context_str, last.plural)
    ELSE KeyBytes(last.context_str, last.s)

\* the string a pointer of the last translate_cp call points at
TextAt(ptr) ==
    IF ptr.reg = "buf" THEN CStringAt(ctx.data, Val(ptr.off))
    ELSE IF ptr = KeyPtr THEN KeyAtReturn
    ELSE IF ptr = last.plural.ptr THEN CBytes(last.plural)
    ELSE CBytes(last.s)

\* what the context lookup of str is to yield: the translation of the
\* context-qualified key, else the translation of bare str, else str itself
ContextLookup(str) ==
    IF last.context_str.ptr # NULL /\ KeyTranslations(str) # {}
    THEN {TextAt(t) : t \in KeyTranslations(str)}
    ELSE IF BareTranslations(str) # {}
    THEN {TextAt(t) : t \in BareTranslations(str)}
    ELSE {CBytes(str)}

\* C5: plural selection.  With plural non-null and n # 1 translate_cp returns
\* the context lookup of plural, otherwise the context lookup of singular, also
\* when the context-qualified singular key was found earlier in the call.
C5_PluralSelection ==
    ContextQuery =>
        IF last.plural.ptr # NULL /\ last.n # 1
        THEN TextAt(last.res) \in ContextLookup(last.plural)
        ELSE TextAt(last.res) \in ContextLookup(last.s)

\* the last call was translate_cp with a context and no plural, as the first
\* lookup after the load
FallbackQuery ==
    /\ ContextQuery
    /\ last.fresh
    /\ last.context_str.ptr # NULL
    /\ last.plural.ptr = NULL

\* C6: context fallback.  On a freshly opened catalog, with a context and no
\* plural, translate_cp returns the translation of ctx||0x04||singular when that
\* key is an original, and otherwise exactly what translate(singular) returns
\* on that catalog.
C6_ContextFallback ==
    FallbackQuery =>
        IF KeyTranslations(last.s) # {}
        THEN last.res \in KeyTranslations(last.s)
        ELSE last.res = mo_translate([ctx EXCEPT !.cache = ZeroCtx.cache], mode,
                                     last.s.ptr, last.s.mem).result

\* the context-qualified key is absent and the bare singular is translated
C6_Witness ==
    /\ FallbackQuery
    /\ KeyTranslations(last.s) = {}
    /\ BareTranslations(last.s) # {}
    /\ last.res \in BareTranslations(last.s)

(***************************************************************************)
(* The heap over a catalog's lifetime.                                     *)
(***************************************************************************)
\* every block the calls allocated has been freed, and freed once
AllFreedOnce == \A b \in 1..Len(heap) : heap[b].frees = 1

\* C7: a failed open releases partial state exactly once.  When open_file or
\* open_memory returns an error, every heap block allocated during the call
\* has been freed exactly once: nothing is leaked, nothing is freed twice.
C7_FailedOpenFreesOnce == phase = "failed" => AllFreedOnce

\* C8: no leak across a catalog's lifetime.  After a successful open followed
\* by close, every heap block allocated during the open has been freed exactly
\* once.
C8_NoLeakAfterClose == phase = "closed" => AllFreedOnce

(***************************************************************************)
(* Load-time validation, stated on the source file in unbounded arithmetic.*)
(***************************************************************************)
\* offset + len + 1 <= size without wrap-around
ViewInRange(offset, len, size) ==
    ~GreaterWide(AddWide(AddWide(offset, len), W(1)), W(size))

\* table_offset + 8 * N <= size without wrap-around
TableInRange(table_offset, size) ==
    ~GreaterWide(AddWide(table_offset, MulWide(FileField(8), EntrySize)), W(size))

\* C9: load-time bounds validation.  Every catalog open_memory accepts has
\* both descriptor tables inside the buffer and, for every index, original
\* and translation views that fit with their trailing NUL, all computed
\* without wrap-around from the 32-bit fields of the file.
C9_BoundsValidated ==
    (last.op = "open_memory" /\ last.err = "MO_SUCCESS") =>
        /\ TableInRange(FileField(12), Len(file))
        /\ TableInRange(FileField(16), Len(file))
        /\ \A i \in 1..FileNum :
              /\ ViewInRange(FileDesc(i).orig_offset, FileDesc(i).orig_len, Len(file))
              /\ ViewInRange(FileDesc(i).trans_offset, FileDesc(i).trans_len, Len(file))

(***************************************************************************)
(* The three builds side by side.                                          *)
(***************************************************************************)
\* what open_memory returns for the file under strategy m, no allocation failing
OpenResults(m) ==
    {o.result : o \in CreateFromMemoryOutcomes(<<>>, m, file, "none")}

\* the texts the first plain query of a build with strategy m can return for
\* the bytes of the last query
FirstAnswers(m) ==
    {LET r == mo_translate_n(o.ctx, m, last.s.ptr, last.s.mem, last.len).result
     IN  IF r.reg = "buf" THEN CStringAt(o.ctx.data, Val(r.off))
         ELSE Prefix(last.s.mem, Strlen(last.s.mem)) :
       o \in {x \in CreateFromMemoryOutcomes(<<>>, m, file, "none") :
                 x.result = "MO_SUCCESS"}}

\* the text the last plain query returned
AnswerText ==
    IF last.res.reg = "buf" THEN CStringAt(ctx.data, Val(last.res.off))
    ELSE Prefix(last.s.mem, Strlen(last.s.mem))

\* C10: strategy equivalence.  The three builds agree on whether a buffer
\* opens, and the first query on the opened catalog returns the same text in
\* every build, also when an original occurs more than once.
C10_StrategyEquivalence ==
    /\ (last.op = "open_memory" /\ last.failAt = "none") =>
           \A m \in Modes : OpenResults(m) = {last.err}
    /\ (PlainQuery /\ last.fresh) =>
           \A m \in Modes : FirstAnswers(m) \subseteq {AnswerText}

(***************************************************************************)
(* The byte-order machine: well-formed catalogs in either byte order.      *)
(***************************************************************************)
\* the file of those pairs with the reversed magic and every 32-bit header
\* and descriptor field byte-reversed
ReversedCatalogFile(pool, picks) ==
    CatalogFileH(TRUE, MO_MAGIC_REV, W(Len(picks)), W(HeaderSize),
                 W(HeaderSize + EntrySize * Len(picks)), pool, picks)

InitEndian ==
    /\ mode \in Modes
    /\ enable_stats = FALSE
    /\ file \in CatalogFiles(PlainPool)
                  \cup {ReversedCatalogFile(PlainPool, picks) : picks \in PoolSeqs(PlainPool)}
    /\ heap = <<>>
    /\ ctx = ZeroCtx
    /\ phase = "init"
    /\ last = NoCall
    /\ race = NoRace

NextEndian ==
    \/ OpenMemory
    \/ Close
    \/ TranslateN
    \/ Translate

SpecEndian == InitEndian /\ [][NextEndian]_vars

\* the same logical content in the other byte order: the magic and every
\* 32-bit field of the header and of the two tables byte-reversed, the string
\* area as it is
Twin ==
    [k \in 1..Len(file) |->
        IF k <= StrBase(FileNum)
        THEN file[4 * ((k - 1) \div 4) + (3 - ((k - 1) % 4)) + 1]
        ELSE file[k]]

\* the loads of the twin under the strategy of the build, no allocation failing
TwinOutcomes == CreateFromMemoryOutcomes(<<>>, mode, Twin, "none")

\* the texts the first plain query of a load of the twin can return for the
\* bytes of the last query
TwinAnswers ==
    {LET r == mo_translate_n(o.ctx, mode, last.s.ptr, last.s.mem, last.len).result
     IN  IF r.reg = "buf" THEN CStringAt(o.ctx.data, Val(r.off))
         ELSE Prefix(last.s.mem, Strlen(last.s.mem)) :
       o \in {x \in TwinOutcomes : x.result = "MO_SUCCESS"}}

\* C11: endianness equivalence.  A buffer and its twin in the other byte order
\* both open, with the same string count, and the first query on the opened
\* catalog returns the text a load of the twin returns for it.
C11_EndianEquivalence ==
    /\ (last.op = "open_memory" /\ last.failAt = "none") =>
           /\ last.err = "MO_SUCCESS"
           /\ \A o \in TwinOutcomes :
                 o.result = "MO_SUCCESS" /\ o.ctx.num_strings = ctx.num_strings
    /\ (PlainQuery /\ last.fresh) => AnswerText \in TwinAnswers

(***************************************************************************)
(* Rejections of the loader.                                               *)
(***************************************************************************)
\* the last call was open_memory on a buffer of at least 28 bytes whose first
\* word is no magic, and the two allocations made before the check succeeded
BadMagicOpen ==
    /\ last.op = "open_memory"
    /\ Len(file) >= HeaderSize
    /\ Read32(file, 0) \notin {MO_MAGIC, MO_MAGIC_REV}
    /\ last.failAt \notin {"ctx", "data"}

\* C12: magic check.  open_memory on a buffer of at least 28 bytes whose first
\* word is neither magic returns InvalidFormat, produces no catalog (every
\* block of the call is freed) and leaves the caller's handle unwritten.
C12_MagicCheck ==
    BadMagicOpen =>
        /\ last.err = "MO_ERROR_INVALID_FORMAT"
        /\ phase = "failed"
        /\ ctx = ZeroCtx
        /\ AllFreedOnce

\* a buffer with a zeroed magic and otherwise well-formed header and tables
\* has been rejected
C12_Witness ==
    /\ BadMagicOpen
    /\ Read32(file, 0) = W(0)
    /\ last.failAt = "none"
    /\ ~TablesOutOfRange(Read32(file, 8), Read32(file, 12), Read32(file, 16), Len(file))
    /\ last.err = "MO_ERROR_INVALID_FORMAT"

(***************************************************************************)
(* The statistics machine: a build with MO_ENABLE_STATS.                   *)
(***************************************************************************)
\* the originals the catalogs of this machine draw from
StatsPool == <<OrigA, OrigB>>

InitStats ==
    /\ mode \in Modes
    /\ enable_stats = TRUE
    /\ file \in CatalogFiles(StatsPool)
    /\ heap = <<>>
    /\ ctx = ZeroCtx
    /\ phase = "init"
    /\ last = NoCall
    /\ race = NoRace

NextStats ==
    \/ OpenMemory
    \/ Close
    \/ TranslateN
    \/ Translate

SpecStats == InitStats /\ [][NextStats]_vars

\* the counters of the open catalog
Lookups == Val(ctx.stats.total_lookups)

Hits == Val(ctx.stats.cache_hits)

Misses == Val(ctx.stats.cache_misses)

\* a step on the open catalog, which in this machine is one translate or
\* translate_n call with a non-null query: one more lookup, and one more of
\* exactly one of hit and miss
CountedCall ==
    (phase = "open" /\ phase' = "open") =>
        /\ Val(ctx'.stats.total_lookups) = Lookups + 1
        /\ \/ (Val(ctx'.stats.cache_hits) = Hits + 1
                  /\ ctx'.stats.cache_misses = ctx.stats.cache_misses)
           \/ (Val(ctx'.stats.cache_misses) = Misses + 1
                  /\ ctx'.stats.cache_hits = ctx.stats.cache_hits)

\* C13: statistics accounting.  In a statistics-enabled build every call on a
\* loaded catalog adds one to total_lookups and one to exactly one of
\* cache_hits and cache_misses, so total_lookups = cache_hits + cache_misses
\* in every state and no counter decreases.
C13_StatsAccounting ==
    /\ [](Lookups = Hits + Misses)
    /\ [][CountedCall]_vars

\* a catalog that has answered from the cache and has missed it
C13_Witness ==
    /\ phase = "open"
    /\ Hits >= 1
    /\ Misses >= 1
    /\ Lookups = Hits + Misses

\* every lookup since the load was translate on one literal: the same pointer
\* and the same bytes in each call
OneLiteral ==
    /\ phase = "open"
    /\ last.op = "translate"
    /\ last.run = Lookups

\* C14: repeated-literal cache behaviour.  N >= 1 consecutive translate calls
\* passing the same pointer on a freshly opened catalog end with
\* cache_misses = 1 and cache_hits = N - 1, for any query literal.
C14_RepeatedLiteral ==
    OneLiteral => (Misses = 1 /\ Hits = last.run - 1)

(***************************************************************************)
(* The sizing machine: the table size mo_build_hash_table computes for a   *)
(* string count anywhere in the 32-bit range.                              *)
(***************************************************************************)
\* 2^j as a word, 0 <= j <= 31
Pow2W(j) == IF j < 16 THEN <<0, 2 ^ j>> ELSE <<2 ^ (j - 16), 0>>

\* a wide number divided by three, rounded down
DivWide3(a) == <<a[1] \div 3, ((a[1] % 3) * Half + a[2]) \div 3>>

\* uint32_t - 1 in unsigned int arithmetic
Dec32(w) ==
    IF w[2] > 0 THEN <<w[1], w[2] - 1>>
    ELSE IF w[1] > 0 THEN <<w[1] - 1, Half - 1>>
    ELSE MaxWord

\* w >> k for k in {1, 2, 4, 8, 16}
ShiftRightW(w, k) ==
    IF k = 16 THEN <<0, w[1]>>
    ELSE <<w[1] \div (2 ^ k), w[2] \div (2 ^ k) + (w[1] % (2 ^ k)) * (2 ^ (16 - k))>>

BitOrW(a, b) == <<BitOr(a[1], b[1]), BitOr(a[2], b[2])>>

\* mo_next_power_of_two on the full range of uint32_t
mo_next_power_of_two_u32(n) ==
    LET n0 == Dec32(n)
        n1 == BitOrW(n0, ShiftRightW(n0, 1))
        n2 == BitOrW(n1, ShiftRightW(n1, 2))
        n3 == BitOrW(n2, ShiftRightW(n2, 4))
        n4 == BitOrW(n3, ShiftRightW(n3, 8))
        n5 == BitOrW(n4, ShiftRightW(n4, 16))
    IN  Add32(n5, W(1))

\* the string counts sized: every count up to MaxCount, 3 * 2^j up to
\* 0xC0000000, and 0xFFFFFFFF.  For the first two families the float quotient
\* num_strings / 0.75f is exact or has the integer part of 4n/3; for the
\* last it is 2^32 / 0.75f
SizedCounts ==
    {W(k) : k \in 1..MaxCount} \cup {MulWide(Pow2W(j), 3) : j \in 0..30} \cup {MaxWord}

\* the integer part of num_strings / MO_HASH_TABLE_LOAD_FACTOR
LoadQuotient(n) == DivWide3(MulWide(n, 4))

\* what the conversion of a float of 2^32 or more to uint32_t can leave in
\* target_size, the conversion being undefined
OutOfRangeConversions == {W(0), <<32768, 0>>, MaxWord}

\* target_size = (uint32_t)(num_strings / 0.75f) + 1, every value it can take
TargetSizes(n) ==
    IF LoadQuotient(n)[1] >= Half
    THEN {Add32(t, W(1)) : t \in OutOfRangeConversions}
    ELSE {Add32(LoadQuotient(n), W(1))}

InitSize ==
    /\ mode = "HASH"
    /\ enable_stats = FALSE
    /\ file = <<>>
    /\ heap = <<>>
    /\ ctx = ZeroCtx
    /\ phase = "init"
    /\ last = NoCall
    /\ race = NoRace

\* the sizing lines of mo_build_hash_table on a context of n pairs
SizeHashTable ==
    /\ phase = "init"
    /\ \E n \in SizedCounts :
         \E target_size \in TargetSizes(n) :
            last' = [NoCall EXCEPT !.op = "build_hash_table",
                                   !.num_strings = n,
                                   !.target_size = target_size,
                                   !.hash_table_size = mo_next_power_of_two_u32(target_size),
                                   !.hash_table_mask =
                                       Dec32(mo_next_power_of_two_u32(target_size))]
    /\ phase' = "sized"
    /\ UNCHANGED <<mode, enable_stats, file, heap, ctx, race>>

NextSize == SizeHashTable

SpecSize == InitSize /\ [][NextSize]_vars

\* ceil(num_strings / 0.75) in unbounded arithmetic
LoadNeed(n) == DivWide3(AddWide(MulWide(n, 4), W(2)))

\* C15: hash-table load bound.  For every num_strings >= 1 of the 32-bit range
\* the table size of the build is a power of two, at least
\* ceil(num_strings / 0.75), and the mask is the size minus one.
C15_HashLoadBound ==
    phase = "sized" =>
        /\ \E j \in 0..31 : last.hash_table_size = Pow2W(j)
        /\ ~LessWide(last.hash_table_size, LoadNeed(last.num_strings))
        /\ last.hash_table_mask = Dec32(last.hash_table_size)

(***************************************************************************)
(* The two-caller machine: two callers inside mo_translate_n at once, on   *)
(* one catalog or on two catalogs loaded from the same buffer.  Each read  *)
(* and each write of a cache-slot field is a step of its own.              *)
(***************************************************************************)
\* the originals the catalogs of this machine draw from
RacePool == <<OrigA, OrigB>>

\* the string literals the callers pass: one address, one text each; both
\* addresses map to cache slot 1 in linear and binary mode
RaceQueries == {CStr(MemPtr(65), <<1>>), CStr(MemPtr(129), <<2>>)}

\* the buffers the catalogs are loaded from: at most as many pairs as
\* RacePool has originals
RaceFiles ==
    {CatalogFile(RacePool, picks) :
        picks \in UNION {[1..k -> 1..Len(RacePool)] : k \in 0..Len(RacePool)}}

InitRace ==
    /\ mode \in Modes
    /\ enable_stats = FALSE
    /\ file \in RaceFiles
    /\ heap = <<>>
    /\ ctx = ZeroCtx
    /\ phase = "init"
    /\ last = NoCall
    /\ race = NoRace

\* the slip of keeping the cache in one place for every catalog
CatalogOf_Shared(cat) == ctx

\* the context a caller's handle points at
CatalogOf(cat) == IF cat = 1 THEN ctx ELSE race.ctx2

\* a second mo_context_create_from_memory on the same buffer
OpenSecond ==
    /\ phase = "open"
    /\ race.ctx2.ctx_blk = 0
    /\ \E o \in CreateFromMemoryOutcomes(heap, mode, file, "none") :
         /\ o.result = "MO_SUCCESS"
         /\ heap' = o.heap
         /\ race' = [race EXCEPT !.ctx2 = o.ctx]
    /\ UNCHANGED <<mode, enable_stats, file, ctx, phase, last>>

\* caller t is between its first and its last access to the cache of cat
Accessing(t, cat) ==
    race.caller[t].cat = cat /\ race.caller[t].pc \notin {"idle", "done"}

\* caller t enters mo_translate_n(handle, original, strlen(original))
Enter(t) ==
    /\ phase = "open"
    /\ race.caller[t].pc = "idle"
    /\ \E cat \in {1, 2}, q \in RaceQueries :
         /\ cat = 2 => race.ctx2.ctx_blk # 0
         /\ race' = [race EXCEPT
                !.caller[t] = [IdleCaller EXCEPT !.pc = "check", !.cat = cat, !.s = q,
                                                 !.overlapped = Accessing(3 - t, cat)],
                !.caller[3 - t].overlapped = @ \/ Accessing(3 - t, cat),
                !.raced[cat] = @ \/ Accessing(3 - t, cat)]
    /\ UNCHANGED <<mode, enable_stats, file, heap, ctx, phase, last>>

\* the cache slot of caller t's query
RaceSlot(t) == CacheSlot(mode, race.caller[t].s.ptr, race.caller[t].s.mem)

\* the step of caller t leaves it as next and its catalog's slot as item
Stepped(t, next, item) ==
    LET cat == race.caller[t].cat
    IN  /\ race' = [race EXCEPT
               !.caller[t] = next,
               !.ctx2 = IF cat = 2 THEN [@ EXCEPT !.cache[RaceSlot(t)] = item] ELSE @]
        /\ ctx' = IF cat = 1 THEN [ctx EXCEPT !.cache[RaceSlot(t)] = item] ELSE ctx
        /\ UNCHANGED <<mode, enable_stats, file, heap, phase, last>>

\* the cache comparison; on a mismatch the search of the read-only index
CheckCache(t) ==
    LET me == race.caller[t]
        c == CatalogOf(me.cat)
        item == c.cache[RaceSlot(t)]
        found == StrategyLookup(c, mode, me.s.mem, Len(me.s.mem))
    IN  /\ me.pc = "check"
        /\ Stepped(t,
              IF CacheHit(c, mode, me.s.ptr, me.s.mem)
              THEN [me EXCEPT !.pc = "read_translation"]
              ELSE IF found # NULL
              THEN [me EXCEPT !.pc = "write_original", !.found = found]
              ELSE [me EXCEPT !.pc = "done", !.result = me.s.ptr],
              item)

\* return cache[slot].translation ? cache[slot].translation : original
ReadTranslation(t) ==
    LET me == race.caller[t]
        item == CatalogOf(me.cat).cache[RaceSlot(t)]
    IN  /\ me.pc = "read_translation"
        /\ Stepped(t,
              [me EXCEPT !.pc = "done",
                         !.result = IF item.translation # NULL THEN item.translation
                                    ELSE me.s.ptr],
              item)

\* context->cache[cache_slot].original = original
WriteOriginal(t) ==
    LET me == race.caller[t]
        item == CatalogOf(me.cat).cache[RaceSlot(t)]
    IN  /\ me.pc = "write_original"
        /\ Stepped(t, [me EXCEPT !.pc = "write_translation"],
                   [item EXCEPT !.original = me.s.ptr])

\* context->cache[cache_slot].translation = result
WriteTranslation(t) ==
    LET me == race.caller[t]
        item == CatalogOf(me.cat).cache[RaceSlot(t)]
    IN  /\ me.pc = "write_translation"
        /\ Stepped(t,
              [me EXCEPT !.pc = IF mode = "HASH" THEN "write_hash" ELSE "done",
                         !.result = me.found],
              [item EXCEPT !.translation = me.found])

\* context->cache[cache_slot].hash = hash
WriteHash(t) ==
    LET me == race.caller[t]
        item == CatalogOf(me.cat).cache[RaceSlot(t)]
    IN  /\ me.pc = "write_hash"
        /\ Stepped(t, [me EXCEPT !.pc = "done"],
                   [item EXCEPT !.hash = mo_hash_string(me.s.mem)])

\* caller t has its answer and is out of the call
Leave(t) ==
    /\ race.caller[t].pc = "done"
    /\ race' = [race EXCEPT !.caller[t] = IdleCaller]
    /\ UNCHANGED <<mode, enable_stats, file, heap, ctx, phase, last>>

NextRace ==
    \/ OpenMemory
    \/ OpenSecond
    \/ \E t \in {1, 2} : Enter(t)
    \/ \E t \in {1, 2} : CheckCache(t)
    \/ \E t \in {1, 2} : ReadTranslation(t)
    \/ \E t \in {1, 2} : WriteOriginal(t)
    \/ \E t \in {1, 2} : WriteTranslation(t)
    \/ \E t \in {1, 2} : WriteHash(t)
    \/ \E t \in {1, 2} : Leave(t)

SpecRace == InitRace /\ [][NextRace]_vars

\* what a lookup of caller t's literal without the cache returns
RaceAnswer(t) ==
    LET me == race.caller[t]
        c == IF me.cat = 1 THEN ctx ELSE race.ctx2
        found == StrategyLookup(c, mode, me.s.mem, Len(me.s.mem))
    IN  IF found # NULL THEN found ELSE me.s.ptr

\* C16: single-writer cache.  A caller whose catalog has had no two calls in
\* progress at once gets the answer of the cache-less lookup, also while the
\* other caller is inside a call on the other catalog; only calls overlapping
\* on one catalog can leave a slot that answers a key with another key's
\* translation.
C16_SingleWriterCache ==
    \A t \in {1, 2} :
        (race.caller[t].pc = "done" /\ ~race.raced[race.caller[t].cat])
            => race.caller[t].result = RaceAnswer(t)

\* after two calls overlapped on catalog 1, its slot holds one query's key
\* with the other's translation, and a later call for that key, overlapping
\* with nothing, has been answered with the other key's translation, while
\* the other caller has its right answer from catalog 2
C16_Witness ==
    \E t \in {1, 2} :
        LET me == race.caller[t]
            other == race.caller[3 - t]
            item == ctx.cache[RaceSlot(t)]
        IN  /\ me.pc = "done" /\ me.cat = 1 /\ ~me.overlapped
            /\ item.original = me.s.ptr
            /\ item.translation = me.result
            /\ me.result.reg = "buf"
            /\ RaceAnswer(t).reg = "buf"
            /\ me.result # RaceAnswer(t)
            /\ other.pc = "done" /\ other.cat = 2
            /\ other.result.reg = "buf"
            /\ other.result = RaceAnswer(3 - t)

\* ---------------------------------------------------------------------
\* unicode_utils: conversions between code points, UTF-8 and UTF-16
\* ---------------------------------------------------------------------

\* utf16_byte_order_t
UTF16_LE == 0

UTF16_BE == 1

UTF16_NATIVE == 2

\* conv_result_t
CONV_SUCCESS == 0

CONV_ERROR_INVALID_PARAM == 0 - 1

CONV_ERROR_INVALID_DATA == 0 - 2

CONV_ERROR_OUT_OF_BUFFER == 0 - 3

\* x & y on naturals below 2^31
RECURSIVE BitAnd(_, _)
BitAnd(x, y) ==
    IF x = 0 \/ y = 0 THEN 0
    ELSE (IF x % 2 = 1 /\ y % 2 = 1 THEN 1 ELSE 0) + 2 * BitAnd(x \div 2, y \div 2)

\* x << k, and the conversions (uint8_t)x and (uint16_t)x
ShiftLeft(x, k) == x * (2 ^ k)

U8(x) == x % 256

U16(x) == x % 65536

\* buffer[i] = v and buffer[i] of a C array held as a sequence
Store(buffer, i, v) == [buffer EXCEPT ![i + 1] = v]

At(buffer, i) == buffer[i + 1]

\* 0x80 | ((codepoint >> shift) & 0x3F), a continuation byte that keeps
\* only five of the six payload bits
TrailByte_FiveBits(codepoint, shift) ==
    U8(BitOr(128, BitAnd(ShiftRight(codepoint, shift), 31)))

\* (uint8_t)(0x80 | ((codepoint >> shift) & 0x3F))
TrailByte(codepoint, shift) ==
    U8(BitOr(128, BitAnd(ShiftRight(codepoint, shift), 63)))

\* codepoint_to_utf8 with non-NULL utf8_buffer and out_length: the result
\* code and the caller's buffer and length object after the call
codepoint_to_utf8(codepoint, utf8_buffer, out_length) ==
    IF codepoint > 1114111
    THEN [result |-> CONV_ERROR_INVALID_PARAM,
          utf8_buffer |-> utf8_buffer, out_length |-> out_length]
    ELSE IF codepoint >= 55296 /\ codepoint <= 57343
    THEN [result |-> CONV_ERROR_INVALID_PARAM,
          utf8_buffer |-> utf8_buffer, out_length |-> out_length]
    ELSE IF codepoint <= 127
    THEN [result |-> CONV_SUCCESS,
          utf8_buffer |-> Store(utf8_buffer, 0, U8(codepoint)),
          out_length |-> 1]
    ELSE IF codepoint <= 2047
    THEN [result |-> CONV_SUCCESS,
          utf8_buffer |->
              Store(Store(utf8_buffer,
                  0, U8(BitOr(192, ShiftRight(codepoint, 6)))),
                  1, TrailByte(codepoint, 0)),
          out_length |-> 2]
    ELSE IF codepoint <= 65535
    THEN [result |-> CONV_SUCCESS,
          utf8_buffer |->
              Store(Store(Store(utf8_buffer,
                  0, U8(BitOr(224, ShiftRight(codepoint, 12)))),
                  1, TrailByte(codepoint, 6)),
                  2, TrailByte(codepoint, 0)),
          out_length |-> 3]
    ELSE [result |-> CONV_SUCCESS,
          utf8_buffer |->
              Store(Store(Store(Store(utf8_buffer,
                  0, U8(BitOr(240, ShiftRight(codepoint, 18)))),
                  1, TrailByte(codepoint, 12)),
                  2, TrailByte(codepoint, 6)),
                  3, TrailByte(codepoint, 0)),
          out_length |-> 4]

\* (byte & 0xC0) != 0x80
NotContinuation(byte) == BitAnd(byte, 192) # 128

\* the test for an encoding longer than its value needs, switched off
Overlong_Unchecked(codepoint, least) == FALSE

\* *codepoint < 0x80, < 0x800, < 0x10000
Overlong(codepoint, least) == codepoint < least

\* utf8_to_codepoint with non-NULL utf8_str, codepoint and out_length,
\* reading utf8_str from index at: the result code and the caller's
\* code point and length objects after the call
utf8_to_codepoint(utf8_str, at, codepoint, out_length) ==
    LET first_byte == At(utf8_str, at)
        b1 == At(utf8_str, at + 1)
        b2 == At(utf8_str, at + 2)
        b3 == At(utf8_str, at + 3)
        cp2 == BitOr(ShiftLeft(BitAnd(first_byte, 31), 6), BitAnd(b1, 63))
        cp3 == BitOr(BitOr(ShiftLeft(BitAnd(first_byte, 15), 12),
                           ShiftLeft(BitAnd(b1, 63), 6)),
                     BitAnd(b2, 63))
        cp4 == BitOr(BitOr(BitOr(ShiftLeft(BitAnd(first_byte, 7), 18),
                                 ShiftLeft(BitAnd(b1, 63), 12)),
                           ShiftLeft(BitAnd(b2, 63), 6)),
                     BitAnd(b3, 63))
        Fail(code, cp) ==
            [result |-> code, codepoint |-> cp, out_length |-> out_length]
        Done(cp, len) ==
            [result |-> CONV_SUCCESS, codepoint |-> cp, out_length |-> len]
    IN  IF BitAnd(first_byte, 128) = 0
        THEN Done(first_byte, 1)
        ELSE IF BitAnd(first_byte, 224) = 192
        THEN IF NotContinuation(b1)
             THEN Fail(CONV_ERROR_INVALID_PARAM, codepoint)
             ELSE IF Overlong(cp2, 128)
             THEN Fail(CONV_ERROR_INVALID_PARAM, cp2)
             ELSE Done(cp2, 2)
        ELSE IF BitAnd(first_byte, 240) = 224
        THEN IF NotContinuation(b1) \/ NotContinuation(b2)
             THEN Fail(CONV_ERROR_INVALID_PARAM, codepoint)
             ELSE IF Overlong(cp3, 2048)
             THEN Fail(CONV_ERROR_INVALID_PARAM, cp3)
             ELSE Done(cp3, 3)
        ELSE IF BitAnd(first_byte, 248) = 240
        THEN IF NotContinuation(b1) \/ NotContinuation(b2) \/ NotContinuation(b3)
             THEN Fail(CONV_ERROR_INVALID_PARAM, codepoint)
             ELSE IF Overlong(cp4, 65536)
             THEN Fail(CONV_ERROR_INVALID_PARAM, cp4)
             ELSE IF cp4 > 1114111
             THEN Fail(CONV_ERROR_INVALID_DATA, cp4)
             ELSE Done(cp4, 4)
        ELSE Fail(CONV_ERROR_INVALID_PARAM, codepoint)

\* code points within Radius of each boundary of the encodings are drawn
Radius == 2

\* multiples of Stride up to StrideCount * Stride are drawn
Stride == 4369

StrideCount == 255

\* the boundaries of the UTF-8 lengths, of the surrogates and of Unicode
CodepointEdges == {0, 128, 2048, 55296, 57344, 65536, 1114112}

\* the uint32_t code points handed to the encoders
CodepointSamples ==
    {c \in UNION {(e - Radius)..(e + Radius) : e \in CodepointEdges} : c >= 0}
        \cup {2 ^ k : k \in 0..30}
        \cup {(2 ^ k) - 1 : k \in 0..30}
        \cup {(2 ^ 30) + ((2 ^ 30) - 1)}
        \cup {k * Stride : k \in 0..StrideCount}

\* what a caller's buffer holds before the call, and its length object
FillBytes == {0, 128, 255}

PriorLengths == {0, 7}

\* uint8_t utf8_buffer[5], every byte set to fill
FreshUtf8(fill) == [i \in 1..5 |-> fill]

\* first bytes and following bytes of the UTF-8 sequences handed to the
\* decoder, and the NUL-terminated arrays made of them
LeadSamples ==
    {0, 65, 127, 128, 191, 192, 193, 194, 223, 224, 225, 237, 239, 240,
     241, 244, 245, 247, 248, 255}

TrailSamples == {0, 127, 128, 143, 144, 159, 160, 191, 192, 255}

ByteStrings ==
    {<<a, b, c, d, 0>> : a \in LeadSamples, b \in TrailSamples,
                         c \in TrailSamples, d \in TrailSamples}

\* the call before the last one: nothing
NoPrev == [op |-> "none", arg |-> 0, order |-> UTF16_LE, result |-> CONV_SUCCESS,
           out_length |-> 0]

\* the objects of a caller of the conversions before its first call, on a
\* machine whose byte order is native
NoConv(native) ==
    [op |-> "none", native |-> native, arg |-> 0, order |-> UTF16_LE,
     result |-> CONV_SUCCESS,
     utf8 |-> FreshUtf8(0), utf16 |-> <<0, 0>>,
     codepoint |-> 0, out_length |-> 0, prior_length |-> 0,
     pieces |-> <<>>, buffer_size |-> 0, written |-> {},
     prev |-> NoPrev]

\* the last call, as the next call's prev
PrevOf(call) ==
    [op |-> call.op, arg |-> call.arg, order |-> call.order,
     result |-> call.result, out_length |-> call.out_length]

InitUnicode ==
    /\ mode = "LINEAR"
    /\ enable_stats = FALSE
    /\ file = <<>>
    /\ heap = <<>>
    /\ ctx = ZeroCtx
    /\ phase = "init"
    /\ race = NoRace
    /\ \E native \in {UTF16_LE, UTF16_BE} : last = NoConv(native)

\* a conversion call has returned, leaving the caller's objects as call
Converted(call) ==
    /\ last' = call
    /\ phase' = (IF phase = "init" THEN "called" ELSE "decoded")
    /\ UNCHANGED <<mode, enable_stats, file, heap, ctx, race>>

\* the caller's objects after an encoder or utf8_to_utf16 has returned r
Encoded(call, r) ==
    [call EXCEPT !.result = r.result, !.out_length = r.out_length]

\* the caller's objects after a decoder has returned r
DecodedCall(call, r) ==
    [call EXCEPT !.result = r.result, !.codepoint = r.codepoint,
                 !.out_length = r.out_length]

\* the caller's objects after codepoint_to_utf8 has returned r
EncodedUtf8(call, r) == [Encoded(call, r) EXCEPT !.utf8 = r.utf8_buffer]

\* codepoint_to_utf8(c, utf8_buffer, &utf8_len) on a fresh buffer; every
\* test declares its own objects, so a call on fresh objects is taken
\* from the initial state only
EncodeUtf8 ==
    /\ phase = "init"
    /\ \E c \in CodepointSamples, fill \in FillBytes, len \in PriorLengths :
        Converted(EncodedUtf8(
            [NoConv(last.native) EXCEPT
                !.op = "codepoint_to_utf8", !.arg = c, !.prior_length = len],
            codepoint_to_utf8(c, FreshUtf8(fill), len)))

\* utf8_to_codepoint(utf8_buffer, &decoded_codepoint, &decoded_len) on
\* the buffer a successful codepoint_to_utf8 has filled
DecodeUtf8 ==
    /\ phase = "called"
    /\ last.op = "codepoint_to_utf8"
    /\ last.result = CONV_SUCCESS
    /\ \E len \in PriorLengths :
        Converted(DecodedCall(
            [NoConv(last.native) EXCEPT
                !.op = "utf8_to_codepoint", !.utf8 = last.utf8,
                !.prior_length = len, !.prev = PrevOf(last)],
            utf8_to_codepoint(last.utf8, 0, 0, len)))

\* utf8_to_codepoint(bytes, &codepoint, &len) on an array of given bytes
DecodeBytes ==
    /\ phase = "init"
    /\ \E bytes \in ByteStrings, len \in PriorLengths :
        Converted(DecodedCall(
            [NoConv(last.native) EXCEPT
                !.op = "utf8_to_codepoint", !.utf8 = bytes, !.prior_length = len],
            utf8_to_codepoint(bytes, 0, 0, len)))

\* ((u & 0x00FF) << 8) | ((u & 0xFF00) >> 8), stored in a uint16_t
SwapUnit(u) ==
    U16(BitOr(ShiftLeft(BitAnd(u, 255), 8), ShiftRight(BitAnd(u, 65280), 8)))

\* byte_order is none of the three enumerators
BadOrder(byte_order) ==
    byte_order # UTF16_LE /\ byte_order # UTF16_BE /\ byte_order # UTF16_NATIVE

\* effective_order: UTF16_NATIVE replaced by get_native_byte_order(),
\* which is native on this machine
EffectiveOrder(byte_order, native) ==
    IF byte_order = UTF16_NATIVE THEN native ELSE byte_order

\* the unit as stored for effective_order
Ordered(u, effective_order) ==
    IF effective_order = UTF16_BE THEN SwapUnit(u) ELSE u

\* a low surrogate that keeps only nine of the ten low bits
LowSurrogate_NineBits(offset) == U16(BitOr(56320, BitAnd(offset, 511)))

\* (uint16_t)(0xDC00 | (codepoint & 0x3FF)), codepoint being the offset
\* from 0x10000
LowSurrogate(offset) == U16(BitOr(56320, BitAnd(offset, 1023)))

\* (uint16_t)(0xD800 | (codepoint >> 10))
HighSurrogate(offset) == U16(BitOr(55296, ShiftRight(offset, 10)))

\* codepoint_to_utf16 with non-NULL utf16_buffer and out_length
codepoint_to_utf16(codepoint, utf16_buffer, byte_order, out_length, native) ==
    LET effective_order == EffectiveOrder(byte_order, native)
        offset == codepoint - 65536
        Fail == [result |-> CONV_ERROR_INVALID_PARAM,
                 utf16_buffer |-> utf16_buffer, out_length |-> out_length]
    IN  IF codepoint > 1114111 THEN Fail
        ELSE IF codepoint >= 55296 /\ codepoint <= 57343 THEN Fail
        ELSE IF BadOrder(byte_order) THEN Fail
        ELSE IF codepoint <= 65535
        THEN [result |-> CONV_SUCCESS,
              utf16_buffer |->
                  Store(utf16_buffer, 0, Ordered(U16(codepoint), effective_order)),
              out_length |-> 1]
        ELSE [result |-> CONV_SUCCESS,
              utf16_buffer |->
                  Store(Store(utf16_buffer,
                      0, Ordered(HighSurrogate(offset), effective_order)),
                      1, Ordered(LowSurrogate(offset), effective_order)),
              out_length |-> 2]

\* utf16_to_codepoint with non-NULL utf16_str, codepoint and out_length
utf16_to_codepoint(utf16_str, codepoint, byte_order, out_length, native) ==
    LET effective_order == EffectiveOrder(byte_order, native)
        first_unit == Ordered(At(utf16_str, 0), effective_order)
        second_unit == Ordered(At(utf16_str, 1), effective_order)
        Fail == [result |-> CONV_ERROR_INVALID_PARAM,
                 codepoint |-> codepoint, out_length |-> out_length]
    IN  IF BadOrder(byte_order) THEN Fail
        ELSE IF first_unit < 55296 \/ first_unit > 57343
        THEN [result |-> CONV_SUCCESS, codepoint |-> first_unit, out_length |-> 1]
        ELSE IF first_unit >= 55296 /\ first_unit <= 56319
        THEN IF At(utf16_str, 1) = 0 THEN Fail
             ELSE IF second_unit >= 56320 /\ second_unit <= 57343
             THEN [result |-> CONV_SUCCESS,
                   codepoint |->
                       65536 + BitOr(ShiftLeft(BitAnd(first_unit, 1023), 10),
                                     BitAnd(second_unit, 1023)),
                   out_length |-> 2]
             ELSE Fail
        ELSE Fail

\* the byte_order arguments: the three enumerators and a value that is none
OrderSamples == {UTF16_LE, UTF16_BE, UTF16_NATIVE, 3}

\* what a caller's uint16_t buffer holds before the call
FillUnits == {0, 56320, 65535}

\* uint16_t utf16_buffer[2], every unit set to fill
FreshUtf16(fill) == <<fill, fill>>

\* the caller's objects after codepoint_to_utf16 has returned r
EncodedUtf16(call, r) == [Encoded(call, r) EXCEPT !.utf16 = r.utf16_buffer]

\* codepoint_to_utf16(c, utf16_buffer, order, &utf16_len) on a fresh buffer
EncodeUtf16 ==
    /\ phase = "init"
    /\ \E c \in CodepointSamples, order \in OrderSamples,
          fill \in FillUnits, len \in PriorLengths :
        Converted(EncodedUtf16(
            [NoConv(last.native) EXCEPT
                !.op = "codepoint_to_utf16", !.arg = c, !.order = order,
                !.prior_length = len],
            codepoint_to_utf16(c, FreshUtf16(fill), order, len, last.native)))

\* utf16_to_codepoint(utf16_buffer, &decoded_codepoint, order, &decoded_len)
\* on the buffer a successful codepoint_to_utf16 has filled
DecodeUtf16 ==
    /\ phase = "called"
    /\ last.op = "codepoint_to_utf16"
    /\ last.result = CONV_SUCCESS
    /\ \E order \in OrderSamples, len \in PriorLengths :
        Converted(DecodedCall(
            [NoConv(last.native) EXCEPT
                !.op = "utf16_to_codepoint", !.order = order,
                !.utf16 = last.utf16, !.prior_length = len,
                !.prev = PrevOf(last)],
            utf16_to_codepoint(last.utf16, 0, order, len, last.native)))

\* a string handed to utf8_to_utf16 is made of at most MaxChars pieces
MaxChars == 2

\* the largest buffer_size handed to utf8_to_utf16: room for every string
\* and its terminator, and one unit to spare
MaxBuffer == 2 * MaxChars + 2

\* the memory holding the caller's buffer and what follows it
MemUnits == MaxBuffer + 2

\* the pieces: A, U+00E9, U+20AC and U+10000 encoded, then an invalid start
\* byte, a lead byte without its continuation and an encoded surrogate
PieceSamples ==
    {[valid |-> TRUE, units |-> 1, bytes |-> <<65>>],
     [valid |-> TRUE, units |-> 1, bytes |-> <<195, 169>>],
     [valid |-> TRUE, units |-> 1, bytes |-> <<226, 130, 172>>],
     [valid |-> TRUE, units |-> 2, bytes |-> <<240, 144, 128, 128>>],
     [valid |-> FALSE, units |-> 0, bytes |-> <<255>>],
     [valid |-> FALSE, units |-> 0, bytes |-> <<195>>],
     [valid |-> FALSE, units |-> 0, bytes |-> <<237, 160, 128>>]}

PieceStrings == UNION {[1..n -> PieceSamples] : n \in 0..MaxChars}

\* the NUL-terminated array of the pieces' bytes
RECURSIVE BytesOf(_)
BytesOf(pieces) ==
    IF pieces = <<>> THEN <<0>>
    ELSE Head(pieces).bytes \o BytesOf(Tail(pieces))

\* size_t needed_units = (codepoint <= 0xFFFF) ? 1 : 2
NeededUnits(codepoint) == IF codepoint <= 65535 THEN 1 ELSE 2

\* the room test without the unit of the terminator, and one more
Fits_OneTooMany(j, needed_units, buffer_size) ==
    ~(j + needed_units > buffer_size + 1)

\* !(j + needed_units + 1 > buffer_size)
Fits(j, needed_units, buffer_size) == ~(j + needed_units + 1 > buffer_size)

\* for (k = 0; k < utf16_len; k++) utf16_buffer[j++] = utf16_units[k]
RECURSIVE CopyUnits(_, _, _, _)
CopyUnits(st, utf16_units, k, utf16_len) ==
    IF k < utf16_len
    THEN CopyUnits([st EXCEPT !.utf16_buffer = Store(@, st.j, At(utf16_units, k)),
                              !.written = @ \cup {st.j},
                              !.j = @ + 1],
                   utf16_units, k + 1, utf16_len)
    ELSE st

\* the locals after utf8_to_codepoint has returned d
Decoded(st, d) ==
    [st EXCEPT !.result = d.result, !.codepoint = d.codepoint,
               !.codepoint_len = d.out_length]

\* the locals after codepoint_to_utf16 has returned e: its units copied
\* and i advanced, or its error kept
Emitted(got, e) ==
    IF e.result # CONV_SUCCESS
    THEN [got EXCEPT !.result = e.result]
    ELSE [CopyUnits(got, e.utf16_buffer, 0, e.out_length)
              EXCEPT !.i = @ + got.codepoint_len]

\* one turn of the while loop, utf8_to_codepoint having returned d
ConvertStep(st, d, buffer_size, effective_order, native) ==
    IF d.result # CONV_SUCCESS THEN Decoded(st, d)
    ELSE IF ~Fits(st.j, NeededUnits(d.codepoint), buffer_size)
    THEN [Decoded(st, d) EXCEPT !.result = CONV_ERROR_OUT_OF_BUFFER]
    ELSE Emitted(Decoded(st, d),
                 codepoint_to_utf16(d.codepoint, <<0, 0>>, effective_order, 0, native))

\* the while loop of utf8_to_utf16 from the locals st
RECURSIVE ConvertLoop(_, _, _, _, _)
ConvertLoop(utf8_str, st, buffer_size, effective_order, native) ==
    IF At(utf8_str, st.i) # 0 /\ st.result = CONV_SUCCESS
    THEN ConvertLoop(utf8_str,
                     ConvertStep(st,
                         utf8_to_codepoint(utf8_str, st.i, st.codepoint, st.codepoint_len),
                         buffer_size, effective_order, native),
                     buffer_size, effective_order, native)
    ELSE st

\* the end of utf8_to_utf16, the loop having left the locals st: the
\* terminator and the length are written when the loop succeeded and
\* j < buffer_size
Terminated(st, buffer_size, out_length) ==
    IF st.result # CONV_SUCCESS
    THEN [result |-> st.result, utf16_buffer |-> st.utf16_buffer,
          written |-> st.written, out_length |-> out_length]
    ELSE IF st.j < buffer_size
    THEN [result |-> CONV_SUCCESS,
          utf16_buffer |-> Store(st.utf16_buffer, st.j, 0),
          written |-> st.written \cup {st.j},
          out_length |-> st.j]
    ELSE [result |-> CONV_ERROR_OUT_OF_BUFFER, utf16_buffer |-> st.utf16_buffer,
          written |-> st.written, out_length |-> out_length]

\* utf8_to_utf16 with non-NULL utf8_str, utf16_buffer and out_length: the
\* result code, the memory at utf16_buffer, the indexes written and the
\* caller's length object after the call
utf8_to_utf16(utf8_str, utf16_buffer, buffer_size, byte_order, out_length, native) ==
    LET entry == [i |-> 0, j |-> 0, result |-> CONV_SUCCESS,
                  codepoint |-> 0, codepoint_len |-> 0,
                  utf16_buffer |-> utf16_buffer, written |-> {}]
        Fail == [result |-> CONV_ERROR_INVALID_PARAM, utf16_buffer |-> utf16_buffer,
                 written |-> {}, out_length |-> out_length]
    IN  IF buffer_size = 0 THEN Fail
        ELSE IF BadOrder(byte_order) THEN Fail
        ELSE Terminated(ConvertLoop(utf8_str, entry, buffer_size,
                                    EffectiveOrder(byte_order, native), native),
                        buffer_size, out_length)

\* the caller's objects after utf8_to_utf16 has returned r
ConvertedUtf16(call, r) ==
    [Encoded(call, r) EXCEPT !.utf16 = r.utf16_buffer, !.written = r.written]

\* utf8_to_utf16(utf8_str, utf16_buffer, buffer_size, order, &len) on a
\* string of pieces and a buffer of buffer_size units
ConvertUtf8ToUtf16 ==
    /\ phase = "init"
    /\ \E pieces \in PieceStrings, buffer_size \in 0..MaxBuffer,
          order \in OrderSamples, fill \in {0, 65535} :
        Converted(ConvertedUtf16(
            [NoConv(last.native) EXCEPT
                !.op = "utf8_to_utf16", !.order = order,
                !.pieces = pieces, !.buffer_size = buffer_size,
                !.prior_length = MaxBuffer],
            utf8_to_utf16(BytesOf(pieces), [u \in 1..MemUnits |-> fill],
                          buffer_size, order, MaxBuffer, last.native)))

NextUnicode ==
    \/ EncodeUtf8
    \/ DecodeUtf8
    \/ DecodeBytes
    \/ EncodeUtf16
    \/ DecodeUtf16
    \/ ConvertUtf8ToUtf16

SpecUnicode == InitUnicode /\ [][NextUnicode]_vars

\* a Unicode scalar value: 0..0x10FFFF without the surrogates
IsScalar(c) == c \in 0..1114111 /\ c \notin 55296..57343

\* the last call decoded what the call before it, op on a scalar value,
\* had encoded
DecodedAfter(op) == last.prev.op = op /\ IsScalar(last.prev.arg)

\* C17: codepoint/UTF-8 round trip. For every Unicode scalar value c,
\* codepoint_to_utf8(c) succeeds with a length L in 1..4, and
\* utf8_to_codepoint on the bytes it produced succeeds, returns c and
\* reports the same length L.
C17_Utf8RoundTrip ==
    /\ (last.op = "codepoint_to_utf8" /\ IsScalar(last.arg))
           => (last.result = CONV_SUCCESS /\ last.out_length \in 1..4)
    /\ (last.op = "utf8_to_codepoint" /\ DecodedAfter("codepoint_to_utf8"))
           => /\ last.result = CONV_SUCCESS
              /\ last.codepoint = last.prev.arg
              /\ last.out_length = last.prev.out_length

\* U+10FFFF has been encoded in four bytes, into a buffer that held 0xFF
\* bytes, and decoded from them
C17_Witness ==
    /\ last.op = "utf8_to_codepoint"
    /\ last.prev.op = "codepoint_to_utf8"
    /\ last.prev.arg = 1114111
    /\ last.prev.out_length = 4
    /\ last.utf8 = <<244, 143, 191, 191, 255>>
    /\ last.result = CONV_SUCCESS
    /\ last.codepoint = 1114111
    /\ last.out_length = 4

\* C18: codepoint/UTF-16 round trip. For every Unicode scalar value c and
\* each byte order of UTF16_LE and UTF16_BE, codepoint_to_utf16(c, order)
\* succeeds with one unit when c <= 0xFFFF and with two units, a surrogate
\* pair, otherwise, and utf16_to_codepoint on the units it produced, with
\* the same order, succeeds, returns c and reports the same unit count.
C18_Utf16RoundTrip ==
    /\ (/\ last.op = "codepoint_to_utf16"
        /\ IsScalar(last.arg)
        /\ last.order \in {UTF16_LE, UTF16_BE})
           => /\ last.result = CONV_SUCCESS
              /\ last.out_length = (IF last.arg <= 65535 THEN 1 ELSE 2)
    /\ (/\ last.op = "utf16_to_codepoint"
        /\ DecodedAfter("codepoint_to_utf16")
        /\ last.prev.order \in {UTF16_LE, UTF16_BE}
        /\ last.order = last.prev.order)
           => /\ last.result = CONV_SUCCESS
              /\ last.codepoint = last.prev.arg
              /\ last.out_length = last.prev.out_length

\* U+10000 has been encoded as the pair D800 DC00 in big-endian order and
\* decoded from it in the same order
C18_Witness ==
    /\ last.op = "utf16_to_codepoint"
    /\ last.prev.op = "codepoint_to_utf16"
    /\ last.prev.arg = 65536
    /\ last.prev.order = UTF16_BE
    /\ last.order = UTF16_BE
    /\ last.prev.out_length = 2
    /\ last.utf16 = <<216, 220>>
    /\ last.result = CONV_SUCCESS
    /\ last.codepoint = 65536
    /\ last.out_length = 2

\* every piece is the encoding of a scalar value
RECURSIVE AllValid(_)
AllValid(pieces) ==
    pieces = <<>> \/ (Head(pieces).valid /\ AllValid(Tail(pieces)))

\* the UTF-16 units the pieces convert to
RECURSIVE UnitsOf(_)
UnitsOf(pieces) ==
    IF pieces = <<>> THEN 0 ELSE Head(pieces).units + UnitsOf(Tail(pieces))

\* C19: utf8_to_utf16 output bounds. For every input string and every
\* buffer_size >= 1, utf8_to_utf16 writes no index >= buffer_size; it
\* returns CONV_ERROR_OUT_OF_BUFFER whenever the converted units and the
\* terminating 0 do not fit; and on CONV_SUCCESS the reported out_length
\* is below buffer_size and buffer[out_length] is 0.
C19_OutputBounds ==
    (last.op = "utf8_to_utf16" /\ last.buffer_size >= 1)
        => /\ \A index \in last.written : index < last.buffer_size
           /\ (/\ last.order \in {UTF16_LE, UTF16_BE, UTF16_NATIVE}
               /\ AllValid(last.pieces)
               /\ UnitsOf(last.pieces) + 1 > last.buffer_size)
                  => last.result = CONV_ERROR_OUT_OF_BUFFER
           /\ last.result = CONV_SUCCESS
                  => /\ last.out_length < last.buffer_size
                     /\ At(last.utf16, last.out_length) = 0

\* "A" and U+10000, three units and their terminator, have been refused in
\* a buffer of three units after the unit of "A" was written
C19_Witness ==
    /\ last.op = "utf8_to_utf16"
    /\ Len(last.pieces) = 2
    /\ AllValid(last.pieces)
    /\ UnitsOf(last.pieces) = 3
    /\ last.buffer_size = 3
    /\ last.written = {0}
    /\ last.utf16[1] = 65
    /\ last.result = CONV_ERROR_OUT_OF_BUFFER

\* the bytes the sequence at the head of bytes is made of, by its first
\* byte: 0 for a byte that starts no sequence
SequenceLength(bytes) ==
    LET b == bytes[1]
    IN  IF b < 128 THEN 1
        ELSE IF b \in 192..223 THEN 2
        ELSE IF b \in 224..239 THEN 3
        ELSE IF b \in 240..247 THEN 4
        ELSE 0

\* a byte that follows the first of a sequence is not 10xxxxxx
BadContinuation(bytes) ==
    \E k \in 2..SequenceLength(bytes) : bytes[k] \notin 128..191

\* the value carried by the payload bits of a sequence of n bytes
PayloadValue(bytes, n) ==
    IF n = 2 THEN (bytes[1] - 192) * 64 + (bytes[2] - 128)
    ELSE IF n = 3
    THEN (bytes[1] - 224) * 4096 + (bytes[2] - 128) * 64 + (bytes[3] - 128)
    ELSE (bytes[1] - 240) * 262144 + (bytes[2] - 128) * 4096
             + (bytes[3] - 128) * 64 + (bytes[4] - 128)

\* a well-formed sequence of 2, 3 or 4 bytes whose value needs fewer
OverlongSequence(bytes) ==
    LET n == SequenceLength(bytes)
    IN  /\ n >= 2
        /\ ~BadContinuation(bytes)
        /\ PayloadValue(bytes, n) < (IF n = 2 THEN 128 ELSE IF n = 3 THEN 2048 ELSE 65536)

\* C20: malformed UTF-8 and invalid code points are rejected.
\* utf8_to_codepoint returns CONV_ERROR_INVALID_PARAM for an invalid start
\* byte, for a multi-byte lead whose continuation bytes are not 10xxxxxx,
\* and for every overlong encoding; codepoint_to_utf8 returns it for code
\* points above 0x10FFFF and for the surrogates; and in each of these cases
\* out_length is left as the caller had it.
C20_MalformedRejected ==
    /\ (/\ last.op = "utf8_to_codepoint"
        /\ \/ SequenceLength(last.utf8) = 0
           \/ BadContinuation(last.utf8)
           \/ OverlongSequence(last.utf8))
           => /\ last.result = CONV_ERROR_INVALID_PARAM
              /\ last.out_length = last.prior_length
    /\ (/\ last.op = "codepoint_to_utf8"
        /\ (last.arg > 1114111 \/ last.arg \in 55296..57343))
           => /\ last.result = CONV_ERROR_INVALID_PARAM
              /\ last.out_length = last.prior_length

\* the three-byte form of U+0000, E0 80 80, has been refused and the
\* caller's length object still holds the 7 it held
C20_Witness ==
    /\ last.op = "utf8_to_codepoint"
    /\ last.utf8 = <<224, 128, 128, 0, 0>>
    /\ OverlongSequence(last.utf8)
    /\ last.prior_length = 7
    /\ last.result = CONV_ERROR_INVALID_PARAM
    /\ last.out_length = 7

(***************************************************************************)
(* logger: independent logger instances, each with a threshold and an      *)
(* output function.                                                        *)
(***************************************************************************)
\* log_level_t: the smaller the value, the more severe
LOG_LEVEL_E == 0

LOG_LEVEL_W == 1

LOG_LEVEL_I == 2

LOG_LEVEL_D == 3

LOG_LEVEL_T == 4

\* the level arguments: the five enumerators and a value above them
LevelSamples == LOG_LEVEL_E..(LOG_LEVEL_T + 1)

\* the func arguments: none, printf and the demo's timestamp_output
NoFunc == "NULL"

FuncSamples == {NoFunc, "printf", "timestamp_output"}

\* the addresses malloc can return for a logger_t, and the null pointer
LoggerAddrs == {1, 2}

NoLogger == 0

\* the logger_t blocks before any allocation
NoLoggers ==
    [a \in LoggerAddrs |-> [alloc |-> FALSE, level |-> LOG_LEVEL_E, output_func |-> NoFunc]]

\* (func != NULL) ? func : printf
OutputOrPrintf(func) == IF func # NoFunc THEN func ELSE "printf"

\* logger_create: every outcome of malloc, the pointer returned and the
\* blocks after the call
logger_create(mem, level, func) ==
    {[logger |-> NoLogger, mem |-> mem]}
        \cup {[logger |-> a,
               mem |-> [mem EXCEPT ![a] = [alloc |-> TRUE, level |-> level,
                                           output_func |-> OutputOrPrintf(func)]]] :
                  a \in {b \in LoggerAddrs : ~mem[b].alloc}}

\* logger_destroy: the blocks after the call; what a freed block holds is
\* not looked at again and is written as in NoLoggers
logger_destroy(mem, logger) ==
    IF logger # NoLogger THEN [mem EXCEPT ![logger] = NoLoggers[logger]] ELSE mem

\* the slip of keeping one threshold for every instance
logger_set_level_Global(mem, logger, level) ==
    IF logger # NoLogger
    THEN [a \in LoggerAddrs |-> [mem[a] EXCEPT !.level = level]]
    ELSE mem

\* logger_set_level: the blocks after the call
logger_set_level(mem, logger, level) ==
    IF logger # NoLogger THEN [mem EXCEPT ![logger].level = level] ELSE mem

\* logger_get_level
logger_get_level(mem, logger) ==
    IF logger = NoLogger THEN LOG_LEVEL_I ELSE mem[logger].level

\* logger_set_output: the blocks after the call
logger_set_output(mem, logger, func) ==
    IF logger # NoLogger
    THEN [mem EXCEPT ![logger].output_func = OutputOrPrintf(func)]
    ELSE mem

\* the switch on level
LevelChar(level) ==
    IF level = LOG_LEVEL_E THEN "E"
    ELSE IF level = LOG_LEVEL_W THEN "W"
    ELSE IF level = LOG_LEVEL_I THEN "I"
    ELSE IF level = LOG_LEVEL_D THEN "D"
    ELSE IF level = LOG_LEVEL_T THEN "T"
    ELSE "?"

\* logger_log: the calls of output functions it makes, in order
logger_log(mem, logger, level) ==
    IF logger = NoLogger \/ level > mem[logger].level
    THEN <<>>
    ELSE <<[func |-> mem[logger].output_func, level_char |-> LevelChar(level)]>>

\* the program of two logger variables before its first call: no blocks,
\* both pointers null, no threshold given to either instance
NoLog ==
    [op |-> "none", who |-> 1, level |-> LOG_LEVEL_E, ret |-> 0, out |-> <<>>,
     mem |-> NoLoggers,
     handle |-> <<NoLogger, NoLogger>>,
     threshold |-> <<LOG_LEVEL_E, LOG_LEVEL_E>>]

InitLogger ==
    /\ mode = "LINEAR"
    /\ enable_stats = FALSE
    /\ file = <<>>
    /\ heap = <<>>
    /\ ctx = ZeroCtx
    /\ phase = "init"
    /\ race = NoRace
    /\ last = NoLog

\* a logger call on variable who has returned, leaving the program as call
Logged(op, who, level, call) ==
    /\ last' = [call EXCEPT !.op = op, !.who = who, !.level = level,
                            !.ret = IF op = "get_level" THEN @ ELSE 0]
    /\ phase' = "logging"
    /\ UNCHANGED <<mode, enable_stats, file, heap, ctx, race>>

\* the program after logger_create has returned o into variable who
Created(who, level, o) ==
    [last EXCEPT !.mem = o.mem, !.handle[who] = o.logger, !.out = <<>>,
                 !.threshold[who] = IF o.logger # NoLogger THEN level ELSE @]

\* var = logger_create(level, func), var holding no logger
CreateLogger ==
    \E who \in {1, 2}, level \in LevelSamples, func \in FuncSamples :
        /\ last.handle[who] = NoLogger
        /\ \E o \in logger_create(last.mem, level, func) :
               Logged("create", who, level, Created(who, level, o))

\* logger_destroy(var); the variable is not used again until it is
\* assigned
DestroyLogger ==
    \E who \in {1, 2} :
        /\ last.handle[who] # NoLogger
        /\ Logged("destroy", who, LOG_LEVEL_E,
                  [last EXCEPT !.mem = logger_destroy(last.mem, last.handle[who]),
                               !.handle[who] = NoLogger, !.out = <<>>,
                               !.threshold[who] = LOG_LEVEL_E])

\* logger_set_level(var, level)
SetLevel ==
    \E who \in {1, 2}, level \in LevelSamples :
        Logged("set_level", who, level,
               [last EXCEPT !.mem = logger_set_level(last.mem, last.handle[who], level),
                            !.out = <<>>,
                            !.threshold[who] =
                                IF last.handle[who] # NoLogger THEN level ELSE @])

\* logger_get_level(var)
GetLevel ==
    \E who \in {1, 2} :
        Logged("get_level", who, LOG_LEVEL_E,
               [last EXCEPT !.ret = logger_get_level(last.mem, last.handle[who]),
                            !.out = <<>>])

\* logger_set_output(var, func)
SetOutput ==
    \E who \in {1, 2}, func \in FuncSamples :
        Logged("set_output", who, LOG_LEVEL_E,
               [last EXCEPT !.mem = logger_set_output(last.mem, last.handle[who], func),
                            !.out = <<>>])

\* logger_log(var, level, format, ...)
Log ==
    \E who \in {1, 2}, level \in LevelSamples :
        Logged("log", who, level,
               [last EXCEPT !.out = logger_log(last.mem, last.handle[who], level)])

NextLogger ==
    \/ CreateLogger
    \/ DestroyLogger
    \/ SetLevel
    \/ GetLevel
    \/ SetOutput
    \/ Log

SpecLogger == InitLogger /\ [][NextLogger]_vars

\* C21: logger level filter. logger_log(logger, level, ...) calls the
\* logger's output function exactly once when logger is non-NULL and level
\* is at most the threshold most recently given to that instance by
\* logger_create or logger_set_level, and makes no call otherwise; a
\* threshold given to one instance changes nothing another one emits.
C21_LevelFilter ==
    last.op = "log"
        => IF last.handle[last.who] # NoLogger
              /\ last.level <= last.threshold[last.who]
           THEN /\ Len(last.out) = 1
                /\ last.out[1].func = last.mem[last.handle[last.who]].output_func
           ELSE last.out = <<>>

\* with the first instance at LOG_LEVEL_D and the second at LOG_LEVEL_W, a
\* LOG_LEVEL_D message on the first has been emitted through timestamp_output
C21_Witness ==
    /\ last.op = "log"
    /\ last.who = 1
    /\ last.level = LOG_LEVEL_D
    /\ last.handle[1] # NoLogger
    /\ last.handle[2] # NoLogger
    /\ last.threshold = <<LOG_LEVEL_D, LOG_LEVEL_W>>
    /\ last.out = <<[func |-> "timestamp_output", level_char |-> "D"]>>

\* C22: hash-table sizing.  For every num_strings >= 1 the table size of the
\* build is exactly the smallest power of two that is at least
\* ceil(num_strings / 0.75): 4 slots for 3 strings, 8 slots for 6.
C22_SmallestPowerOfTwo ==
    phase = "sized" =>
        \E j \in 0..31 :
            /\ last.hash_table_size = Pow2W(j)
            /\ ~LessWide(last.hash_table_size, LoadNeed(last.num_strings))
            /\ j > 0 => LessWide(Pow2W(j - 1), LoadNeed(last.num_strings))

(***************************************************************************)
(* The long-key machine: translate_cp with context strings whose           *)
(* context-qualified keys lie on either side of sizeof(key).               *)
(***************************************************************************)
\* the originals the catalogs of this machine draw from
KeyPool == <<OrigA, OrigB, OrigX>>

\* a context string of len bytes, all 5, and its NUL
LongStr(len) == [k \in 1..len |-> 5] \o <<0>>

\* the context strings passed: with the singular the key takes
\* sizeof(key) - 2, sizeof(key) - 1 and sizeof(key) bytes before its NUL
LongCtxStrs ==
    {CStr(MemPtr(300), LongStr(MO_MAX_STRING_LENGTH - k)) : k \in 2..4}

\* a one-byte singular and a two-byte plural: a context can fit the key of
\* the first and not the key of the second
KeySingularStrs == {CStr(MemPtr(65), <<1, 0>>)}

KeyPluralStrs == {NullStr, CStr(MemPtr(129), <<1, 34, 0>>)}

\* mo_translate_cp(handle, context_str, singular, plural, n) with a long context
TranslateLongKey ==
    /\ phase = "open"
    /\ \E cs \in LongCtxStrs, sg \in KeySingularStrs, pl \in KeyPluralStrs, n \in Counts :
         Answered(mo_translate_cp(ctx, mode, cs, sg, pl, n),
                  [NoCall EXCEPT !.op = "translate_cp", !.context_str = cs,
                                 !.s = sg, !.plural = pl, !.n = n])

InitKey ==
    /\ mode \in Modes
    /\ enable_stats = FALSE
    /\ file \in CatalogFiles(KeyPool)
    /\ heap = <<>>
    /\ ctx = ZeroCtx
    /\ phase = "init"
    /\ last = NoCall
    /\ race = NoRace

NextKey ==
    \/ OpenMemory
    \/ Close
    \/ TranslateLongKey

SpecKey == InitKey /\ [][NextKey]_vars

\* the context-qualified key of the last call's singular, resp. plural, does
\* not fit key[] with its terminator
SingularKeyOverflows ==
    Len(KeyBytes(last.context_str, last.s)) >= MO_MAX_STRING_LENGTH

PluralKeyOverflows ==
    /\ ~SingularKeyOverflows
    /\ last.plural.ptr # NULL
    /\ last.n # 1
    /\ Len(KeyBytes(last.context_str, last.plural)) >= MO_MAX_STRING_LENGTH

\* C23: key overflow.  When the context-qualified key of the singular does
\* not fit the 4096-byte key buffer, translate_cp returns the singular's own
\* pointer; when the key of the plural does not fit, it returns the plural's
\* own pointer; in neither case a catalog translation.
C23_KeyOverflow ==
    last.op = "translate_cp" /\ last.context_str.ptr # NULL =>
        /\ SingularKeyOverflows => last.res = last.s.ptr
        /\ PluralKeyOverflows => last.res = last.plural.ptr

\* a step that is a call of mo_translate or mo_translate_n on an open catalog
TranslateStep ==
    /\ phase = "open"
    /\ phase' = "open"
    /\ last'.op \in {"translate", "translate_n"}

\* the cache after the call differs from the cache before it in slot k alone,
\* which holds the query's key and the translation found
OnlySlotWritten(k, original, str, found) ==
    /\ ctx'.cache[k].original = original
    /\ ctx'.cache[k].translation = found
    /\ mode = "HASH" => ctx'.cache[k].hash = mo_hash_string(str)
    /\ \A j \in DOMAIN ctx.cache : j # k => ctx'.cache[j] = ctx.cache[j]

\* what a call that misses the cache leaves behind, found being the
\* strategy's answer
MissFrame(original, str, found) ==
    IF found = NULL
    THEN ctx'.cache = ctx.cache /\ last'.res = original
    ELSE OnlySlotWritten(CacheSlot(mode, original, str), original, str, found)

\* C24: a miss leaves the cache untouched.  A translate call that misses the
\* cache and whose strategy finds nothing changes none of the 64 slots and
\* returns the caller's pointer; one whose strategy finds a translation
\* overwrites exactly the slot of its key with (key, translation); no
\* translate call changes the pair array, the hash table or the byte buffer.
C24_MissFrame ==
    [][TranslateStep =>
        /\ ctx'.pairs = ctx.pairs
        /\ ctx'.hash_table = ctx.hash_table
        /\ ctx'.data = ctx.data
        /\ (ctx.pairs_blk # 0
            /\ ~CacheHit(ctx, mode, last'.s.ptr, Prefix(last'.s.mem, last'.len))) =>
               MissFrame(last'.s.ptr, Prefix(last'.s.mem, last'.len),
                         StrategyLookup(ctx, mode, Prefix(last'.s.mem, last'.len),
                                        last'.len))]_vars

\* a found query on a fresh cache: its slot holds the query's address and the
\* translation returned, the other 63 slots are empty
C24_Witness ==
    /\ last.op = "translate_n"
    /\ last.fresh
    /\ last.res.reg = "buf"
    /\ \A k \in DOMAIN ctx.cache :
          ctx.cache[k] =
              IF k = CacheSlot(mode, last.s.ptr, Prefix(last.s.mem, last.len))
              THEN [original |-> last.s.ptr, translation |-> last.res,
                    hash |-> IF mode = "HASH"
                             THEN mo_hash_string(Prefix(last.s.mem, last.len))
                             ELSE W(0)]
              ELSE EmptyCacheItem

\* C25: probe termination.  For every catalog of num_strings >= 1 the table
\* the hash build allocates has more slots than the num_strings slots the
\* insertion loop occupies, so that the insertion loop always reaches a slot
\* that is not occupied and the lookup loop an empty slot or its start.
C25_OccupiedBelowSize ==
    phase = "sized" => LessWide(last.num_strings, last.hash_table_size)

\* a is at most b in the order of the bytes as unsigned values
LexLeq(a, b) ==
    \/ a = b
    \/ \E k \in 1..Len(a) :
          /\ k <= Len(b)
          /\ a[k] < b[k]
          /\ \A j \in 1..(k - 1) : a[j] = b[j]

\* the pairs of the open catalog ascend by length, then by bytes
PairsAscending ==
    \A k \in 1..(ctx.num_strings - 1) :
        \/ LessWide(ctx.pairs[k].original_len, ctx.pairs[k + 1].original_len)
        \/ /\ ctx.pairs[k].original_len = ctx.pairs[k + 1].original_len
           /\ LexLeq(PairOriginal(ctx, ctx.pairs[k]), PairOriginal(ctx, ctx.pairs[k + 1]))

\* the (0-based) indices of the pairs whose original is exactly str
IndicesOf(str) ==
    {i \in 0..(ctx.num_strings - 1) : PairOriginal(ctx, ctx.pairs[i + 1]) = str}

\* C26: binary search.  After a binary-mode build the pairs ascend by
\* (original_len, bytes), and mo_find_string_binary returns the index of a
\* pair with the query's length and bytes whenever there is one and
\* 0xFFFFFFFF otherwise, a search that narrows to index 0 and a one-element
\* catalog included.
C26_BinaryFinds ==
    phase = "open" /\ mode = "BINARY" =>
        /\ PairsAscending
        /\ \A str \in QueryStrs :
              IF IndicesOf(str) # {}
              THEN mo_find_string_binary(ctx, str, Len(str)) \in IndicesOf(str)
              ELSE mo_find_string_binary(ctx, str, Len(str)) = NOT_FOUND

\* a one-element catalog whose pair is longer than the query: the search
\* stops at mid == 0 and the call returns the caller's pointer
C26_Witness ==
    /\ mode = "BINARY"
    /\ phase = "open"
    /\ ctx.num_strings = 1
    /\ PairOriginal(ctx, ctx.pairs[1]) = <<1, 34>>
    /\ last.op = "translate_n"
    /\ last.s.mem = <<1>>
    /\ last.res = last.s.ptr

\* the slot reached t steps after the home slot of pair i (0-based), with
\* wraparound
SlotAfter(i, t) ==
    ctx.hash_table[((mo_hash_string(PairOriginal(ctx, ctx.pairs[i + 1]))[2] + t)
                       % ctx.hash_table_size) + 1]

\* slot holds an original equal to that of pair i: hash, length and bytes
HoldsOriginalOf(slot, i) ==
    /\ slot.state = "OCCUPIED"
    /\ slot.hash = mo_hash_string(PairOriginal(ctx, ctx.pairs[i + 1]))
    /\ slot.original_len = ctx.pairs[i + 1].original_len
    /\ SlotOriginal(ctx, slot) = PairOriginal(ctx, ctx.pairs[i + 1])

\* the lowest index whose original equals that of pair i
LowestSame(i) ==
    CHOOSE j \in 0..i :
        /\ PairOriginal(ctx, ctx.pairs[j + 1]) = PairOriginal(ctx, ctx.pairs[i + 1])
        /\ \A k \in 0..(j - 1) :
              PairOriginal(ctx, ctx.pairs[k + 1]) # PairOriginal(ctx, ctx.pairs[i + 1])

\* C27: probe reachability.  After a hash build, scanning forward with
\* wraparound from the home slot of any pair's original reaches an occupied
\* slot with that original's hash, length and bytes before any empty slot,
\* and the first such slot holds the translation of the lowest-indexed pair
\* with that original.
C27_ProbeReaches ==
    phase = "open" /\ mode = "HASH" =>
        \A i \in 0..(ctx.num_strings - 1) :
            \E t \in 0..(ctx.hash_table_size - 1) :
                /\ HoldsOriginalOf(SlotAfter(i, t), i)
                /\ SlotAfter(i, t).translation = ctx.pairs[LowestSame(i) + 1].translation
                /\ \A u \in 0..(t - 1) :
                      /\ SlotAfter(i, u).state # "EMPTY"
                      /\ ~HoldsOriginalOf(SlotAfter(i, u), i)

\* two pairs with the original "\002" in a four-slot table: the first is in
\* its home slot 3, the second has wrapped around to slot 0
C27_Witness ==
    /\ mode = "HASH"
    /\ phase = "open"
    /\ ctx.num_strings = 2
    /\ PairOriginal(ctx, ctx.pairs[1]) = <<2>>
    /\ PairOriginal(ctx, ctx.pairs[2]) = <<2>>
    /\ ctx.hash_table_size = 4
    /\ ctx.hash_table[4].state = "OCCUPIED"
    /\ ctx.hash_table[4].translation = ctx.pairs[1].translation
    /\ ctx.hash_table[1].state = "OCCUPIED"
    /\ ctx.hash_table[1].translation = ctx.pairs[2].translation

(***************************************************************************)
(* The cache machine: every kind of translate call on catalogs the loader  *)
(* accepts, among them catalogs with a translation descriptor whose        *)
(* offset + length + 1 wraps past 2^32.                                     *)
(***************************************************************************)
\* descriptors of the originals "\001" and "\003\004\001"
ViewOrigDescs(cnt) ==
    {[len |-> W(OrigA.len), off |-> W(StrBase(cnt) + OrigA.rel)],
     [len |-> W(OrigCA.len), off |-> W(StrBase(cnt) + OrigCA.rel)]}

\* descriptors of the translation of pair k: its string in the translations'
\* area, or the empty string at offset 0xFFFFFFFF
ViewTransDescs(cnt, k) ==
    {[len |-> W(1), off |-> W(StrBase(cnt) + Len(OrigArea) + 2 * (k - 1))],
     [len |-> W(0), off |-> MaxWord]}

ViewFiles ==
    UNION {{MkFile(FALSE, MO_MAGIC, W(cnt), W(HeaderSize),
                   W(HeaderSize + EntrySize * cnt), origs, transs) :
                origs \in [1..cnt -> ViewOrigDescs(cnt)],
                transs \in {t \in [1..cnt -> UNION {ViewTransDescs(cnt, k) : k \in 1..cnt}] :
                               \A k \in 1..cnt : t[k] \in ViewTransDescs(cnt, k)}} :
           cnt \in 0..MaxN}

InitView ==
    /\ mode \in Modes
    /\ enable_stats = FALSE
    /\ file \in ViewFiles
    /\ heap = <<>>
    /\ ctx = ZeroCtx
    /\ phase = "init"
    /\ last = NoCall
    /\ race = NoRace

NextView ==
    \/ OpenMemory
    \/ Close
    \/ TranslateN
    \/ Translate
    \/ TranslateCP

SpecView == InitView /\ [][NextView]_vars

\* p points at a byte of the catalog's own copy of the file
InBuffer(p) == p.reg = "buf" /\ LessWide(p.off, W(ctx.size))

\* the key of cache slot k masks to k: the djb2 hash in hash mode, the
\* query's address otherwise
KeyMasksTo(item, k) ==
    IF mode = "HASH"
    THEN item.hash[2] % MO_CACHE_SIZE = k
    ELSE PtrLowBits(item.original) = k

\* C28: cache slot well-formedness.  In every state reached by translate,
\* translate_n and translate_cp calls, each non-empty cache slot k holds a
\* key with key & 63 == k and a non-null translation pointer into the
\* catalog's own buffer, so that no cache hit returns a pointer outside the
\* catalog.
C28_CacheWellFormed ==
    phase = "open" =>
        \A k \in DOMAIN ctx.cache :
            ctx.cache[k].original # NULL =>
                /\ KeyMasksTo(ctx.cache[k], k)
                /\ ctx.cache[k].translation # NULL
                /\ InBuffer(ctx.cache[k].translation)

\* mo_get_string_count(handle)
mo_get_string_count(c) == c.num_strings

\* C29: empty catalog.  A well-formed buffer with num_strings == 0 opens
\* under every strategy when no allocation fails, its string count is 0 and
\* every translate call on it returns the caller's pointer.
C29_EmptyCatalog ==
    /\ (last.op = "open_memory" /\ last.failAt = "none" /\ FileNum = 0) =>
           /\ last.err = "MO_SUCCESS"
           /\ mo_get_string_count(ctx) = 0
    /\ (PlainQuery /\ FileNum = 0) => last.res = last.s.ptr

(***************************************************************************)
(* The validating caller: is_valid_utf8 on a string, then utf8_to_utf16    *)
(* into a buffer of utf16_from_utf8_max_size units.                        *)
(***************************************************************************)
\* utf8_strlen: the bytes before the first NUL
utf8_strlen(utf8_str) == Strlen(utf8_str)

\* the continuation test of is_valid_utf8 failing on the byte at index at
NotTrail(utf8_str, at) == BitAnd(At(utf8_str, at), 192) # 128

\* the while loop of is_valid_utf8 from index i; TRUE when it leaves the
\* loop with valid still set
RECURSIVE ValidLoop(_, _, _)
ValidLoop(utf8_str, i, length) ==
    IF ~(i < length) THEN TRUE
    ELSE IF BitAnd(At(utf8_str, i), 128) = 0
    THEN ValidLoop(utf8_str, i + 1, length)
    ELSE IF BitAnd(At(utf8_str, i), 224) = 192
    THEN IF i + 1 >= length THEN FALSE
         ELSE IF NotTrail(utf8_str, i + 1) THEN FALSE
         ELSE IF BitAnd(At(utf8_str, i), 254) = 192 THEN FALSE
         ELSE ValidLoop(utf8_str, i + 2, length)
    ELSE IF BitAnd(At(utf8_str, i), 240) = 224
    THEN IF i + 2 >= length THEN FALSE
         ELSE IF NotTrail(utf8_str, i + 1) \/ NotTrail(utf8_str, i + 2) THEN FALSE
         ELSE IF At(utf8_str, i) = 224 /\ BitAnd(At(utf8_str, i + 1), 224) = 128
         THEN FALSE
         ELSE ValidLoop(utf8_str, i + 3, length)
    ELSE IF BitAnd(At(utf8_str, i), 248) = 240
    THEN IF i + 3 >= length THEN FALSE
         ELSE IF \/ NotTrail(utf8_str, i + 1)
                 \/ NotTrail(utf8_str, i + 2)
                 \/ NotTrail(utf8_str, i + 3)
         THEN FALSE
         ELSE IF At(utf8_str, i) = 240 /\ BitAnd(At(utf8_str, i + 1), 240) = 128
         THEN FALSE
         ELSE IF At(utf8_str, i) = 244 /\ At(utf8_str, i + 1) > 143 THEN FALSE
         ELSE ValidLoop(utf8_str, i + 4, length)
    ELSE FALSE

\* is_valid_utf8 on a non-NULL string; a length of 0 stands for the length
\* up to the NUL
is_valid_utf8(utf8_str, length) ==
    ValidLoop(utf8_str, 0, IF length = 0 THEN Strlen(utf8_str) ELSE length)

\* utf16_from_utf8_max_size on a non-NULL string: one unit per byte and one
\* for the terminator
utf16_from_utf8_max_size(utf8_str, length) ==
    1 + (IF length = 0 THEN utf8_strlen(utf8_str) ELSE length)

\* the sequences the strings are made of: those of PieceSamples, U+10FFFF,
\* an encoded low surrogate, the lead bytes 0xF5 and 0xF7 with three
\* continuation bytes, U+110000 encoded, and two overlong forms
SequenceSamples ==
    {p.bytes : p \in PieceSamples}
    \cup {<<244, 143, 191, 191>>, <<237, 191, 191>>, <<245, 128, 128, 128>>,
          <<247, 191, 191, 191>>, <<244, 144, 128, 128>>, <<192, 128>>,
          <<224, 128, 128>>}

SequenceStrings == UNION {[1..n -> SequenceSamples] : n \in 0..MaxChars}

\* the NUL-terminated array of the sequences
RECURSIVE Joined(_)
Joined(seqs) == IF seqs = <<>> THEN <<0>> ELSE Head(seqs) \o Joined(Tail(seqs))

\* the caller's objects after the two calls: what is_valid_utf8 returned,
\* the buffer size asked for and what utf8_to_utf16 returned
Validated(native, seqs, order, valid, max_size, r) ==
    [op |-> "validate_convert", native |-> native, seqs |-> seqs, order |-> order,
     valid |-> valid, buffer_size |-> max_size,
     result |-> r.result, out_length |-> r.out_length, utf16 |-> r.utf16_buffer]

\* is_valid_utf8(s, 0), then utf8_to_utf16(s, buf,
\* utf16_from_utf8_max_size(s, 0), order, &n) with buf of that many units
ValidateAndConvert ==
    /\ phase = "init"
    /\ \E seqs \in SequenceStrings, order \in {UTF16_LE, UTF16_BE} :
         last' = Validated(last.native, seqs, order,
                           is_valid_utf8(Joined(seqs), 0),
                           utf16_from_utf8_max_size(Joined(seqs), 0),
                           utf8_to_utf16(Joined(seqs),
                               [u \in 1..utf16_from_utf8_max_size(Joined(seqs), 0) |-> 65535],
                               utf16_from_utf8_max_size(Joined(seqs), 0),
                               order, 0, last.native))
    /\ phase' = "called"
    /\ UNCHANGED <<mode, enable_stats, file, heap, ctx, race>>

NextValid == ValidateAndConvert

SpecValid == InitUnicode /\ [][NextValid]_vars

\* the three bytes encode a surrogate U+D800..U+DFFF
EncodesSurrogate(bytes) ==
    Len(bytes) = 3 /\ bytes[1] = 237 /\ bytes[2] \in 160..191 /\ bytes[3] \in 128..191

\* a four-byte sequence led by 0xF5..0xF7
LedPastF4(bytes) == Len(bytes) = 4 /\ bytes[1] \in 245..247

\* C30: validator and converter agree.  For every NUL-terminated string that
\* is_valid_utf8 accepts, utf8_to_utf16 into a buffer of
\* utf16_from_utf8_max_size units returns CONV_SUCCESS in either byte order;
\* the validator accepts no encoded surrogate and no four-byte sequence led
\* by 0xF5..0xF7.
C30_ValidConverts ==
    (phase = "called" /\ last.op = "validate_convert" /\ last.valid) =>
        /\ last.result = CONV_SUCCESS
        /\ \A k \in 1..Len(last.seqs) :
              ~EncodesSurrogate(last.seqs[k]) /\ ~LedPastF4(last.seqs[k])

====
